---- MODULE Spec2Model ----
(***************************************************************************)
(* Resource property marshaling of the Pulumi Node.js SDK                  *)
(* (sdk/nodejs/runtime/rpc.ts): serializeProperty / deserializeProperty,   *)
(* transferProperties / resolveProperties and the versioned registry       *)
(* (register / getRegistration).                                           *)
(*                                                                         *)
(* JavaScript values are tagged records [t |-> <type>, ...]; the tag is    *)
(* always the first field.  Objects are functions from key strings to      *)
(* values, arrays are sequences.                                           *)
(***************************************************************************)
EXTENDS Integers, Sequences, FiniteSets, TLC

VARIABLES
    \* process-wide settings and feature store (settings.ts / state.ts)
    isDryRun,                    \* result of isDryRun()
    supportsSecrets,             \* getStore().supportsSecrets
    supportsResourceReferences,  \* getStore().supportsResourceReferences
    supportsOutputValues,        \* getStore().supportsOutputValues
    \* one marshaling call chain: serializeProperty then deserializeProperty
    pc,                          \* position of the call chain
    prop,                        \* the value handed to serializeProperty
    opts,                        \* the SerializationOptions of the call
    keepUnknowns,                \* the keepUnknowns argument of deserializeProperty
    wire,                        \* the wire value (output of serialize, input of deserialize)
    dependentResources,          \* the caller's dependentResources set
    result,                      \* the value deserializeProperty returned (or threw)
    \* the registries (state.ts: getResourceModules / getResourcePackages)
    resourceModules,
    resourcePackages,
    lastCall,                    \* the last register / getRegistration call and its result
    \* one resource registration: transferProperties then resolveProperties
    xpc,                         \* position of the registration
    props,                       \* Object.keys(props) of transferProperties
    onto,                        \* the own properties of the target resource
    resolvers,                   \* Object.keys of the returned OutputResolvers
    deferreds,                   \* the four promises behind each placeholder
    invocations,                 \* the calls each resolver has received
    allProps,                    \* the allProps argument of resolveProperties
    propDeps,                    \* the deps argument of resolveProperties
    err,                         \* the err argument of resolveProperties
    \* one asynchronous serializeProperty call and the promises it awaits
    cells,                       \* the settlement of each promise of the input
    awaited,                     \* the promises the call has awaited so far
    reads,                       \* the resource properties the call has read
    blockedOn,                   \* the pending promise the call is suspended on
    thrown                       \* the error the call was rejected with

settingsVars == <<isDryRun, supportsSecrets, supportsResourceReferences, supportsOutputValues>>
marshalVars == <<pc, prop, opts, keepUnknowns, wire, dependentResources, result>>
registryVars == <<resourceModules, resourcePackages, lastCall>>
transferVars ==
    <<xpc, props, onto, resolvers, deferreds, invocations, allProps, propDeps, err>>
asyncVars == <<cells, awaited, reads, blockedOn, thrown>>
vars == <<settingsVars, marshalVars, registryVars, transferVars, asyncVars>>

----------------------------------------------------------------------------
(* Wire vocabulary *)

unknownValue == "04da6b54-80e4-46f7-96ec-b56ff0331ba9"
specialSigKey == "4dabf18193072939515e22adb298388d"
specialAssetSig == "c44067f5952c0a294b673a41bacd8c17"
specialArchiveSig == "0def7320c3a5731c473e5ecbe6d01bc7"
specialSecretSig == "1b47061264138c4ac30d75fd1eb44270"
specialResourceSig == "5cf8f73096256a8f31e491e813e4eb8e"
specialOutputValueSig == "d0e6a833031e9bbcd3f4e8bde6ca49a4"

----------------------------------------------------------------------------
(* JavaScript values *)

Undefined == [t |-> "undefined"]
Null == [t |-> "null"]
Bool(b) == [t |-> "boolean", v |-> b]
Num(n) == [t |-> "number", v |-> n]
Str(s) == [t |-> "string", v |-> s]
Arr(s) == [t |-> "array", v |-> s]
Obj(f) == [t |-> "object", v |-> f]
\* the `unknown` sentinel object of output.ts
unknown == [t |-> "unknown"]
\* a thrown Error
Throw(msg) == [t |-> "throw", v |-> msg]
\* an Output<T> whose four promises have settled
Output(value, known, secret, resources) ==
    [t |-> "Output", value |-> value, isKnown |-> known, isSecret |-> secret,
     resources |-> resources]

isPrimitive(value) == value.t \in {"null", "undefined", "boolean", "number", "string"}

\* JavaScript truthiness, as used by `if (x)`, `x && y` and `x ? a : b`
Truthy(value) ==
    CASE value.t \in {"undefined", "null"} -> FALSE
      [] value.t = "boolean" -> value.v
      [] value.t = "number" -> value.v # 0
      [] value.t = "string" -> value.v # ""
      [] OTHER -> TRUE

\* obj[key]: undefined unless obj is an object that has the key
Get(obj, key) ==
    IF obj.t = "object" /\ key \in DOMAIN obj.v THEN obj.v[key] ELSE Undefined

\* obj[key] = value on an object
Put(obj, key, value) ==
    Obj([k \in DOMAIN obj.v \cup {key} |-> IF k = key THEN value ELSE obj.v[k]])

IsThrow(value) == value.t = "throw"

\* the first element of a sequence that is a thrown error, if any
RECURSIVE FirstThrow(_)
FirstThrow(s) ==
    IF s = <<>> THEN Undefined
    ELSE IF IsThrow(Head(s)) THEN Head(s)
    ELSE FirstThrow(Tail(s))

----------------------------------------------------------------------------
(* Secret envelopes *)

serializeSecretValue(value) ==
    Obj((specialSigKey :> Str(specialSecretSig))
        @@ ("value" :> (IF value = Undefined THEN Null ELSE value)))

isRpcSecret(obj) == Truthy(obj) /\ Get(obj, specialSigKey) = Str(specialSecretSig)

unwrapRpcSecret(obj) == IF ~isRpcSecret(obj) THEN obj ELSE Get(obj, "value")

\* the literal { [specialSigKey]: specialSecretSig, value: v } of deserializeProperty
SecretEnvelope(value) ==
    Obj((specialSigKey :> Str(specialSecretSig)) @@ ("value" :> value))

----------------------------------------------------------------------------
(* Versioned registry *)

\* new semver.SemVer(version) for the version strings of the model:
\* build metadata is parsed but takes no part in comparisons, a prerelease
\* tag ranks below the release (pre = 0 before pre = 1).
SemVer(version) ==
    CASE version = "1.2.0" -> [major |-> 1, minor |-> 2, patch |-> 0, pre |-> 1]
      [] version = "1.2.3" -> [major |-> 1, minor |-> 2, patch |-> 3, pre |-> 1]
      [] version = "1.2.3+build" -> [major |-> 1, minor |-> 2, patch |-> 3, pre |-> 1]
      [] version = "1.5.0-rc" -> [major |-> 1, minor |-> 5, patch |-> 0, pre |-> 0]
      [] version = "1.5.0" -> [major |-> 1, minor |-> 5, patch |-> 0, pre |-> 1]
      [] version = "2.0.0" -> [major |-> 2, minor |-> 0, patch |-> 0, pre |-> 1]

\* semver.gt(a, b) on parsed versions
semverGt(a, b) ==
    \/ a.major > b.major
    \/ a.major = b.major /\ a.minor > b.minor
    \/ a.major = b.major /\ a.minor = b.minor /\ a.patch > b.patch
    \/ a.major = b.major /\ a.minor = b.minor /\ a.patch = b.patch /\ a.pre > b.pre

\* semver.eq(a, b) on version strings
semverEq(a, b) == SemVer(a) = SemVer(b)

\* sameVersion as a strict comparison of the two version fields
sameVersion_Strict(a, b) == a = b

\* a and b are version strings (Str) or Undefined
sameVersion(a, b) == a = Undefined \/ b = Undefined \/ semverEq(a.v, b.v)

\* checkVersion that accepts every version of the requested major
checkVersion_MajorOnly(want, have) ==
    IF want = Undefined \/ have = Undefined THEN TRUE
    ELSE have.major = want.major

\* want and have are parsed versions or Undefined
checkVersion(want, have) ==
    IF want = Undefined \/ have = Undefined THEN TRUE
    ELSE have.major = want.major /\ have.minor >= want.minor /\ have.patch >= want.patch

\* a registered module or package: its version (a string or undefined) and
\* the identity of the registered object
Entry(version, tag) == [version |-> version, tag |-> tag]

\* source.get(key) ?? []
ItemsOf(source, key) == IF key \in DOMAIN source THEN source[key] ELSE <<>>

\* register(source, registrationType, key, item): the return value ...
registerReturns(source, key, item) ==
    ~\E i \in 1..Len(ItemsOf(source, key)) :
        sameVersion(ItemsOf(source, key)[i].version, item.version)

\* register that lets the last registration of a version win: an entry with
\* an equal version is replaced by the item
registerTable_ReplaceEqual(source, key, item) ==
    IF registerReturns(source, key, item)
    THEN [k \in DOMAIN source \cup {key} |-> IF k = key THEN Append(ItemsOf(source, key), item)
                                                ELSE source[k]]
    ELSE [source EXCEPT ![key] = [i \in 1..Len(@) |->
                                     IF sameVersion(@[i].version, item.version)
                                     THEN item ELSE @[i]]]

\* ... and the table it leaves
registerTable(source, key, item) ==
    IF registerReturns(source, key, item)
    THEN [k \in DOMAIN source \cup {key} |-> IF k = key THEN Append(ItemsOf(source, key), item)
                                                ELSE source[k]]
    ELSE source

\* the loop of getRegistration over items[i..], carrying bestMatch
RECURSIVE bestMatchFrom(_, _, _, _)
bestMatchFrom(items, i, ver, bestMatch) ==
    IF i > Len(items) THEN bestMatch
    ELSE LET existing == items[i]
             existingVersion == IF existing.version # Undefined
                                THEN SemVer(existing.version.v) ELSE Undefined
             bestMatchVersion == IF bestMatch # Undefined /\ bestMatch.version # Undefined
                                 THEN SemVer(bestMatch.version.v) ELSE Undefined
         IN  IF ~checkVersion(ver, existingVersion)
             THEN bestMatchFrom(items, i + 1, ver, bestMatch)
             ELSE IF \/ bestMatch = Undefined
                     \/ /\ existingVersion # Undefined
                        /\ bestMatchVersion # Undefined
                        /\ semverGt(existingVersion, bestMatchVersion)
                  THEN bestMatchFrom(items, i + 1, ver, existing)
                  ELSE bestMatchFrom(items, i + 1, ver, bestMatch)

\* version is a version string (Str) or Undefined
getRegistration(source, key, version) ==
    LET ver == IF Truthy(version) THEN SemVer(version.v) ELSE Undefined
    IN  bestMatchFrom(ItemsOf(source, key), 1, ver, Undefined)

moduleKey(pkg, mod) == pkg \o ":" \o mod

getResourcePackage(pkg, version) == getRegistration(resourcePackages, pkg, version)

getResourceModule(pkg, mod, version) ==
    getRegistration(resourceModules, moduleKey(pkg, mod), version)

----------------------------------------------------------------------------
(* Reverse marshaler *)

\* Object.keys order of the keys the model uses
KeyOrder ==
    <<"a", "b", "c", specialSigKey, "value", "secret", "dependencies", "urn", "id",
      "packageVersion", "path", "text", "uri", "assets">>

\* Object.keys(obj) as a sequence
ObjectKeys(obj) == SelectSeq(KeyOrder, LAMBDA k : k \in DOMAIN obj.v)

\* the URNs of the model
UrnTyp == "urn:pulumi:stack::proj::pkg:mod:Typ::name"
UrnChild == "urn:pulumi:stack::proj::top:m:Parent$pkg:mod:Typ::child"
UrnProvider == "urn:pulumi:stack::proj::pulumi:providers:pkg::prov"
UrnBare == "urn:pulumi:stack::proj::pkg::bare"

\* urn.split("::"), qualifiedType.split("$").pop(), type.split(":") of
\* deserializeProperty, for the URNs of the model; any other string has no
\* third "::" part and qualifiedType.split raises a TypeError
ParseUrn(urn) ==
    CASE urn = UrnTyp ->
            [ok |-> TRUE, urnName |-> "name", type |-> "pkg:mod:Typ",
             pkgName |-> "pkg", modName |-> "mod", typName |-> "Typ"]
      [] urn = UrnChild ->
            [ok |-> TRUE, urnName |-> "child", type |-> "pkg:mod:Typ",
             pkgName |-> "pkg", modName |-> "mod", typName |-> "Typ"]
      [] urn = UrnProvider ->
            [ok |-> TRUE, urnName |-> "prov", type |-> "pulumi:providers:pkg",
             pkgName |-> "pulumi", modName |-> "providers", typName |-> "pkg"]
      [] urn = UrnBare ->
            [ok |-> TRUE, urnName |-> "bare", type |-> "pkg",
             pkgName |-> "pkg", modName |-> "", typName |-> ""]
      [] OTHER -> [ok |-> FALSE]

\* resourcePackage.constructProvider / resourceModule.construct: the live
\* resource made by the registered entry
Construct(entry, urnName, type, urn) ==
    [t |-> "Resource", by |-> entry.tag, name |-> urnName, type |-> type, urn |-> urn]

IsAssetOrArchive(value) ==
    value.t \in {"FileAsset", "StringAsset", "RemoteAsset",
                 "AssetArchive", "FileArchive", "RemoteArchive"}

\* new DependencyResource(d): a resource known by its URN only
DependencyResource(d) == IF d.t = "string" THEN d.v ELSE "urn:?"

\* Object.keys(prop["assets"]) with the value under each name: the entries of
\* an object, the elements of an array under their indices, the characters
\* of a string, nothing for a number or a boolean
AssetChildren(as) ==
    CASE as.t = "object" ->
            [i \in 1..Len(ObjectKeys(as)) |->
                [name |-> ObjectKeys(as)[i], value |-> as.v[ObjectKeys(as)[i]]]]
      [] as.t = "array" ->
            [i \in 1..Len(as.v) |-> [name |-> ToString(i - 1), value |-> as.v[i]]]
      [] as.t = "string" -> <<[name |-> "0", value |-> Str("?")]>>
      [] OTHER -> <<>>

RECURSIVE deserializeProperty(_, _)
deserializeProperty(p, keepUnk) ==
    IF p = Undefined
    THEN Throw("unexpected undefined property value during deserialization")
    ELSE IF p = Str(unknownValue)
    THEN (IF isDryRun \/ keepUnk THEN unknown ELSE Undefined)
    ELSE IF p.t \in {"null", "boolean", "number", "string"}
    THEN p
    ELSE IF p.t = "array"
    THEN LET ds == [i \in 1..Len(p.v) |-> deserializeProperty(p.v[i], keepUnk)]
             hadSecret == \E i \in 1..Len(ds) : isRpcSecret(ds[i])
             elems == Arr([i \in 1..Len(ds) |-> unwrapRpcSecret(ds[i])])
         IN  IF \E i \in 1..Len(ds) : IsThrow(ds[i]) THEN FirstThrow(ds)
             ELSE IF hadSecret THEN SecretEnvelope(elems)
             ELSE elems
    ELSE LET sig == Get(p, specialSigKey) IN
    IF Truthy(sig) THEN
        CASE sig = Str(specialAssetSig) ->
                IF Truthy(Get(p, "path")) THEN [t |-> "FileAsset", v |-> Get(p, "path")]
                ELSE IF Truthy(Get(p, "text")) THEN [t |-> "StringAsset", v |-> Get(p, "text")]
                ELSE IF Truthy(Get(p, "uri")) THEN [t |-> "RemoteAsset", v |-> Get(p, "uri")]
                ELSE Throw("Invalid asset encountered when unmarshaling resource property")
          [] sig = Str(specialArchiveSig) ->
                IF Truthy(Get(p, "assets"))
                THEN LET children == AssetChildren(Get(p, "assets"))
                         ds == [i \in 1..Len(children) |->
                                   LET a == deserializeProperty(children[i].value, keepUnk)
                                   IN  IF IsThrow(a) \/ IsAssetOrArchive(a) THEN a
                                       ELSE Throw("Expected an AssetArchive's assets to be unmarshaled Asset or Archive objects")]
                     IN  IF \E i \in 1..Len(ds) : IsThrow(ds[i]) THEN FirstThrow(ds)
                         ELSE [t |-> "AssetArchive",
                               v |-> [k \in {children[i].name : i \in 1..Len(children)} |->
                                         LET i == CHOOSE j \in 1..Len(children) : children[j].name = k
                                         IN  ds[i]]]
                ELSE IF Truthy(Get(p, "path")) THEN [t |-> "FileArchive", v |-> Get(p, "path")]
                ELSE IF Truthy(Get(p, "uri")) THEN [t |-> "RemoteArchive", v |-> Get(p, "uri")]
                ELSE Throw("Invalid archive encountered when unmarshaling resource property")
          [] sig = Str(specialSecretSig) ->
                LET inner == deserializeProperty(Get(p, "value"), keepUnk)
                IN  IF IsThrow(inner) THEN inner ELSE SecretEnvelope(inner)
          [] sig = Str(specialResourceSig) ->
                LET urn == Get(p, "urn")
                    version == Get(p, "packageVersion")
                    parts == IF urn.t = "string" THEN ParseUrn(urn.v) ELSE [ok |-> FALSE]
                IN  IF ~parts.ok THEN Throw("TypeError")
                    ELSE LET isProvider == parts.pkgName = "pulumi" /\ parts.modName = "providers"
                             registration ==
                                 IF isProvider THEN getResourcePackage(parts.typName, version)
                                 ELSE getResourceModule(parts.pkgName, parts.modName, version)
                         IN  IF registration # Undefined
                             THEN Construct(registration, parts.urnName, parts.type, urn.v)
                             ELSE IF Truthy(Get(p, "id"))
                             THEN LET id == Get(p, "id")
                                  IN  deserializeProperty(
                                          IF id = Str("") THEN Str(unknownValue) ELSE id, keepUnk)
                             ELSE urn
          [] sig = Str(specialOutputValueSig) ->
                LET raw == Get(p, "value")
                    isKnown == raw # Undefined
                    value == IF isKnown THEN deserializeProperty(raw, keepUnk) ELSE raw
                    isSecret == Get(p, "secret") = Bool(TRUE)
                    dependencies == Get(p, "dependencies")
                    resources == IF dependencies.t = "array"
                                 THEN {DependencyResource(dependencies.v[i]) :
                                          i \in 1..Len(dependencies.v)}
                                 ELSE {}
                IN  IF IsThrow(value) THEN value
                    ELSE Output(value, Bool(isKnown), Bool(isSecret), resources)
          [] OTHER -> Throw("Unrecognized signature when unmarshaling resource property")
    ELSE LET keys == ObjectKeys(p)
             ds == [i \in 1..Len(keys) |-> deserializeProperty(p.v[keys[i]], keepUnk)]
             hadSecrets == \E i \in 1..Len(ds) : isRpcSecret(ds[i])
             obj == Obj([k \in DOMAIN p.v |-> unwrapRpcSecret(deserializeProperty(p.v[k], keepUnk))])
         IN  IF \E i \in 1..Len(ds) : IsThrow(ds[i]) THEN FirstThrow(ds)
             ELSE IF hadSecrets THEN SecretEnvelope(obj)
             ELSE obj

----------------------------------------------------------------------------
(* Resources and lazy values, as the forward marshaler sees them *)

CustomResources == {"R1", "R2"}
ComponentResources == {"C1"}

CustomResource(name) == [t |-> "CustomResource", name |-> name]
ComponentResource(name) == [t |-> "ComponentResource", name |-> name]

\* the URN string of a resource; a DependencyResource is named by its URN
UrnOf(r) ==
    CASE r = "R1" -> "urn:R1"
      [] r = "R2" -> "urn:R2"
      [] r = "C1" -> "urn:C1"
      [] OTHER -> r

\* resource.urn and resource.id: lazy values owned by the resource itself
urnOutput(r) == Output(Str(UrnOf(r)), Bool(TRUE), Bool(FALSE), {r})
idOutput(r) == Output(Str("id:" \o r), Bool(TRUE), Bool(FALSE), {r})

\* iteration order of a Set<Resource>
ResourceOrder == <<"R1", "R2", "C1", "urn:R1", "urn:R2", "urn:C1">>

RECURSIVE Flatten(_)
Flatten(ss) == IF ss = <<>> THEN <<>> ELSE Head(ss) \o Flatten(Tail(ss))

\* getAllTransitivelyReferencedResourceURNs(resources, new Set()): a custom
\* (or dependency) resource contributes its own URN, a component the URNs of
\* its children; the component of the model has no children
getAllTransitivelyReferencedResourceURNs(resources) ==
    LET rs == SelectSeq(ResourceOrder, LAMBDA r : r \in resources)
    IN  Flatten([i \in 1..Len(rs) |->
                    IF rs[i] \in ComponentResources THEN <<>> ELSE <<Str(UrnOf(rs[i]))>>])

----------------------------------------------------------------------------
(* Forward marshaler *)

Options(keep, exclude) ==
    [t |-> "options", keepOutputValues |-> keep,
     excludeResourceReferencesFromDependencies |-> exclude]

\* opts?.keepOutputValues and opts?.excludeResourceReferencesFromDependencies
OptKeepOutputValues(o) == o # Undefined /\ o.keepOutputValues
OptExcludeResourceReferences(o) ==
    o # Undefined /\ o.excludeResourceReferencesFromDependencies

\* the literal { keepOutputValues: false }
KeepOutputValuesFalse == Options(FALSE, FALSE)

\* the output-value envelope with the secret flag written only for a peer
\* that supports secrets
outputValueEnvelope_SecretIfSupported(isKnown, isSecret, value, dependencies) ==
    LET obj0 == Obj(specialSigKey :> Str(specialOutputValueSig))
        obj1 == IF isKnown
                THEN Put(obj0, "value", IF value = Undefined THEN Null ELSE value)
                ELSE obj0
        obj2 == IF isSecret /\ supportsSecrets THEN Put(obj1, "secret", Bool(isSecret)) ELSE obj1
    IN  IF Len(dependencies) > 0 THEN Put(obj2, "dependencies", Arr(dependencies)) ELSE obj2

\* the output-value envelope of a lazy value: isKnown and isSecret are the
\* awaited flags, value the serialized inner value, dependencies the
\* transitive URNs
outputValueEnvelope(isKnown, isSecret, value, dependencies) ==
    LET obj0 == Obj(specialSigKey :> Str(specialOutputValueSig))
        obj1 == IF isKnown
                THEN Put(obj0, "value", IF value = Undefined THEN Null ELSE value)
                ELSE obj0
        obj2 == IF isSecret THEN Put(obj1, "secret", Bool(isSecret)) ELSE obj1
    IN  IF Len(dependencies) > 0 THEN Put(obj2, "dependencies", Arr(dependencies)) ELSE obj2

\* the collapsed encoding with the secret test ahead of the known test
collapsedOutput_SecretFirst(isKnown, isSecret, value) ==
    IF isSecret /\ supportsSecrets THEN serializeSecretValue(value)
    ELSE IF ~isKnown THEN Str(unknownValue)
    ELSE value

\* the encoding of a lazy value when output values are not kept
collapsedOutput(isKnown, isSecret, value) ==
    IF ~isKnown THEN Str(unknownValue)
    ELSE IF isSecret /\ supportsSecrets THEN serializeSecretValue(value)
    ELSE value

\* asset.Asset.isInstance(value)
IsAsset(value) == value.t \in {"FileAsset", "StringAsset", "RemoteAsset"}

\* the own fields of an asset or archive: the one field that tells its kind
AssetFields(value) ==
    CASE value.t \in {"FileAsset", "FileArchive"} -> Obj("path" :> value.v)
      [] value.t = "StringAsset" -> Obj("text" :> value.v)
      [] value.t \in {"RemoteAsset", "RemoteArchive"} -> Obj("uri" :> value.v)
      [] value.t = "AssetArchive" -> Obj("assets" :> Obj(value.v))

\* the custom resource tracked whenever the option is not set, whatever the
\* peer supports
tracksCustomResource_OptionOnly(o) ==
    ~OptExcludeResourceReferences(o)

\* whether the CustomResource branch keeps the caller's dependentResources:
\* it drops the set when the option is set and the peer supports resource
\* references
tracksCustomResource(o) ==
    ~(OptExcludeResourceReferences(o) /\ supportsResourceReferences)

\* serializeProperty(ctx, p, dependentResources, o), with every promise it
\* awaits fulfilled.  hasDeps tells whether dependentResources is a set or
\* undefined; the result is the wire value v and the resources deps the call
\* adds to dependentResources.
RECURSIVE serializeProperty(_, _, _), serializeAllKeys(_, _, _, _)
serializeProperty(p, hasDeps, o) ==
    CASE isPrimitive(p) -> [v |-> p, deps |-> {}]
      [] IsAssetOrArchive(p) ->
            serializeAllKeys(AssetFields(p),
                             Obj(specialSigKey :> Str(IF IsAsset(p) THEN specialAssetSig
                                                      ELSE specialArchiveSig)),
                             hasDeps, KeepOutputValuesFalse)
      [] p.t = "Promise" -> serializeProperty(p.v, hasDeps, o)
      [] p.t = "Output" ->
            LET propResources == p.resources
                isKnown == Truthy(p.isKnown)
                isSecret == p.isSecret = Bool(TRUE)
                inner == serializeProperty(p.value, TRUE, KeepOutputValuesFalse)
                value == inner.v
                promiseDeps == inner.deps
                keep == OptKeepOutputValues(o) /\ supportsOutputValues
                urnDeps == UNION {serializeProperty(urnOutput(r), TRUE, KeepOutputValuesFalse).deps :
                                     r \in propResources \cup promiseDeps}
                dependencies == getAllTransitivelyReferencedResourceURNs(
                                    propResources \cup promiseDeps \cup urnDeps)
                added == propResources \cup promiseDeps \cup (IF keep THEN urnDeps ELSE {})
            IN  [v |-> IF keep THEN outputValueEnvelope(isKnown, isSecret, value, dependencies)
                       ELSE collapsedOutput(isKnown, isSecret, value),
                 deps |-> IF hasDeps THEN added ELSE {}]
      [] p.t = "unknown" -> [v |-> Str(unknownValue), deps |-> {}]
      [] p.t = "CustomResource" ->
            LET tracked == IF tracksCustomResource(o) THEN hasDeps ELSE FALSE
                own == IF tracked THEN {p.name} ELSE {}
                id == serializeProperty(idOutput(p.name), tracked, KeepOutputValuesFalse)
                urn == serializeProperty(urnOutput(p.name), tracked, KeepOutputValuesFalse)
            IN  IF supportsResourceReferences
                THEN [v |-> Obj((specialSigKey :> Str(specialResourceSig))
                                @@ ("urn" :> urn.v) @@ ("id" :> id.v)),
                      deps |-> own \cup id.deps \cup urn.deps]
                ELSE [v |-> id.v, deps |-> own \cup id.deps]
      [] p.t = "ComponentResource" ->
            LET tracked == IF supportsResourceReferences /\ OptExcludeResourceReferences(o)
                           THEN FALSE ELSE hasDeps
                urn == serializeProperty(urnOutput(p.name), tracked, KeepOutputValuesFalse)
            IN  IF supportsResourceReferences
                THEN [v |-> Obj((specialSigKey :> Str(specialResourceSig)) @@ ("urn" :> urn.v)),
                      deps |-> urn.deps]
                ELSE urn
      [] p.t = "array" ->
            LET es == [i \in 1..Len(p.v) |-> serializeProperty(p.v[i], hasDeps, o)]
            IN  [v |-> Arr([i \in 1..Len(es) |-> IF es[i].v = Undefined THEN Null ELSE es[i].v]),
                 deps |-> UNION {es[i].deps : i \in 1..Len(es)}]
      [] OTHER -> serializeAllKeys(p, Obj(<<>>), hasDeps, o)

\* serializeAllKeys with `if (v)` in place of `if (v !== undefined)`
serializeAllKeys_IfTruthy(innerProp, obj, hasDeps, innerOpts) ==
    LET ks == {k \in DOMAIN innerProp.v :
                  Truthy(serializeProperty(innerProp.v[k], hasDeps, innerOpts).v)}
    IN  [v |-> Obj([k \in DOMAIN obj.v \cup ks |->
                       IF k \in ks THEN serializeProperty(innerProp.v[k], hasDeps, innerOpts).v
                       ELSE obj.v[k]]),
         deps |-> UNION {serializeProperty(innerProp.v[k], hasDeps, innerOpts).deps :
                            k \in DOMAIN innerProp.v}]

\* serializeAllKeys(innerProp, obj, innerOpts) of serializeProperty
serializeAllKeys(innerProp, obj, hasDeps, innerOpts) ==
    LET ks == {k \in DOMAIN innerProp.v :
                  serializeProperty(innerProp.v[k], hasDeps, innerOpts).v # Undefined}
    IN  [v |-> Obj([k \in DOMAIN obj.v \cup ks |->
                       IF k \in ks THEN serializeProperty(innerProp.v[k], hasDeps, innerOpts).v
                       ELSE obj.v[k]]),
         deps |-> UNION {serializeProperty(innerProp.v[k], hasDeps, innerOpts).deps :
                            k \in DOMAIN innerProp.v}]

\* containsUnknownValues looking at the elements of arrays only
RECURSIVE containsUnknownValues_ArraysOnly(_)
containsUnknownValues_ArraysOnly(value) ==
    IF value = Str(unknownValue) THEN TRUE
    ELSE IF isPrimitive(value) THEN FALSE
    ELSE IF value.t = "array"
    THEN \E i \in 1..Len(value.v) : containsUnknownValues_ArraysOnly(value.v[i])
    ELSE FALSE

\* containsUnknownValues(value), for a wire value
RECURSIVE containsUnknownValues(_)
containsUnknownValues(value) ==
    IF value = Str(unknownValue) THEN TRUE
    ELSE IF isPrimitive(value) THEN FALSE
    ELSE IF value.t = "array"
    THEN \E i \in 1..Len(value.v) : containsUnknownValues(value.v[i])
    ELSE \E k \in DOMAIN value.v : containsUnknownValues(value.v[k])

----------------------------------------------------------------------------
(* Bounded input universes *)

\* the greatest number of nodes (leaves, arrays, objects, envelopes) of an
\* input value
MaxNodes == 4

\* the keys of the objects user code builds
UserKeys == <<"a", specialSigKey>>

\* the objects whose values are, in key order, the elements of list
ObjectsOf(list, keys) ==
    {Obj([k \in S |-> list[Cardinality({j \in 1..Len(keys) : keys[j] \in S /\
                                          j <= (CHOOSE i \in 1..Len(keys) : keys[i] = k)})]]) :
        S \in {T \in SUBSET {keys[i] : i \in 1..Len(keys)} : Cardinality(T) = Len(list)}}

PlainLeaves ==
    {Undefined, Null, Bool(TRUE), Num(0), Str("a"), Str(unknownValue)}

\* values built from primitives, sequences and objects, by number of nodes
RECURSIVE PlainOfSize(_), PlainListsOfSize(_)
PlainOfSize(n) ==
    (IF n = 1 THEN PlainLeaves ELSE {})
    \cup {Arr(l) : l \in PlainListsOfSize(n - 1)}
    \cup UNION {ObjectsOf(l, UserKeys) : l \in PlainListsOfSize(n - 1)}

PlainListsOfSize(n) ==
    IF n = 0 THEN {<<>>}
    ELSE UNION {{<<x>> \o l : x \in PlainOfSize(k), l \in PlainListsOfSize(n - k)} : k \in 1..n}

\* the plain values of at most max nodes
PlainValues(max) == UNION {PlainOfSize(n) : n \in 1..max}

----------------------------------------------------------------------------
(* The marshaling call chain *)

\* const v = await serializeProperty(ctx, prop, dependentResources, opts)
Serialize ==
    /\ pc = "input"
    /\ LET r == serializeProperty(prop, TRUE, opts)
       IN  /\ wire' = r.v
           /\ dependentResources' = dependentResources \cup r.deps
    /\ pc' = "serialized"
    /\ UNCHANGED <<settingsVars, asyncVars, prop, opts, keepUnknowns, result, registryVars, transferVars>>

\* deserializeProperty(wire, keepUnknowns)
Deserialize ==
    /\ pc = "serialized"
    /\ \E ku \in BOOLEAN :
        /\ keepUnknowns' = ku
        /\ result' = deserializeProperty(wire, ku)
    /\ pc' = "deserialized"
    /\ UNCHANGED <<settingsVars, asyncVars, prop, opts, wire, dependentResources, registryVars,
                   transferVars>>

NextMarshal == Serialize \/ Deserialize

EmptyTable == <<>>

\* no registry call has been made
NoCall == [op |-> "none"]

\* no asynchronous serialization is under way
NoAwait ==
    /\ cells = <<>>
    /\ awaited = {}
    /\ reads = {}
    /\ blockedOn = "none"
    /\ thrown = Undefined

\* no resource registration is under way
NoTransfer ==
    /\ xpc = "idle"
    /\ props = <<>>
    /\ onto = <<>>
    /\ resolvers = <<>>
    /\ deferreds = <<>>
    /\ invocations = <<>>
    /\ allProps = Undefined
    /\ propDeps = <<>>
    /\ err = Undefined

\* serializeProperty of a plain value with an empty dep set and no options,
\* then deserializeProperty of what it returned
InitRoundTrip ==
    /\ isDryRun \in BOOLEAN
    /\ supportsSecrets = TRUE
    /\ supportsResourceReferences = TRUE
    /\ supportsOutputValues = TRUE
    /\ pc = "input"
    /\ prop \in PlainValues(MaxNodes)
    /\ opts = Undefined
    /\ keepUnknowns = FALSE
    /\ wire = Undefined
    /\ dependentResources = {}
    /\ result = Undefined
    /\ resourceModules = EmptyTable
    /\ resourcePackages = EmptyTable
    /\ lastCall = NoCall
    /\ NoAwait
    /\ NoTransfer

SpecRoundTrip == InitRoundTrip /\ [][NextMarshal]_vars

----------------------------------------------------------------------------
(* Round trip of plain values *)

\* every value nested in value, value itself included
RECURSIVE SubValues(_)
SubValues(value) ==
    {value} \cup
    (CASE value.t = "array" -> UNION {SubValues(value.v[i]) : i \in 1..Len(value.v)}
       [] value.t = "object" -> UNION {SubValues(value.v[k]) : k \in DOMAIN value.v}
       [] OTHER -> {})

\* built only from null, booleans, numbers, strings, sequences and objects
IsPlain(value) ==
    \A x \in SubValues(value) :
        x.t \in {"null", "boolean", "number", "string", "array", "object"}

\* no object of the value uses the reserved signature key as a data key
NoSignatureKey(value) ==
    \A x \in SubValues(value) : x.t = "object" => specialSigKey \notin DOMAIN x.v

HasUnknownMarker(value) == Str(unknownValue) \in SubValues(value)

\* C1 as stated: deserializeProperty(serializeProperty(v, {}, no options)) is
\* structurally equal to v for every plain value v, whatever its string
\* leaves are (the unknown marker included), in preview or not.
C1_RoundTripEveryString ==
    (pc = "deserialized" /\ IsPlain(prop) /\ NoSignatureKey(prop)) => result = prop

\* C1 amended: the round trip holds for every plain value none of whose
\* string leaves equals the unknown marker (and none of whose objects uses
\* the signature key), in preview or not and for either keepUnknowns.
C1_RoundTrip ==
    (pc = "deserialized" /\ IsPlain(prop) /\ NoSignatureKey(prop) /\ ~HasUnknownMarker(prop))
        => result = prop

\* a nested plain value came back unchanged
C1_Witness ==
    /\ pc = "deserialized"
    /\ isDryRun
    /\ prop = Arr(<<Obj("a" :> Str("a")), Null>>)
    /\ result = prop

----------------------------------------------------------------------------
(* Deserialization of engine responses *)

WireKeys == <<"a", "b">>

WireLeaves == {Null, Num(1), Str("a"), Str(unknownValue)}

\* wire values nested from primitives, sequences, plain objects and secret
\* envelopes, by number of nodes
RECURSIVE WireOfSize(_), WireListsOfSize(_)
WireOfSize(n) ==
    (IF n = 1 THEN WireLeaves ELSE {})
    \cup {Arr(l) : l \in WireListsOfSize(n - 1)}
    \cup UNION {ObjectsOf(l, WireKeys) : l \in WireListsOfSize(n - 1)}
    \cup (IF n > 1 THEN {SecretEnvelope(x) : x \in WireOfSize(n - 1)} ELSE {})

WireListsOfSize(n) ==
    IF n = 0 THEN {<<>>}
    ELSE UNION {{<<x>> \o l : x \in WireOfSize(k), l \in WireListsOfSize(n - k)} : k \in 1..n}

\* the wire values of at most max nodes
WireValues(max) == UNION {WireOfSize(n) : n \in 1..max}

\* deserializeProperty of a value the engine returned
InitWire ==
    /\ isDryRun \in BOOLEAN
    /\ supportsSecrets = TRUE
    /\ supportsResourceReferences = TRUE
    /\ supportsOutputValues = TRUE
    /\ pc = "serialized"
    /\ prop = Undefined
    /\ opts = Undefined
    /\ keepUnknowns = FALSE
    /\ wire \in WireValues(MaxNodes)
    /\ dependentResources = {}
    /\ result = Undefined
    /\ resourceModules = EmptyTable
    /\ resourcePackages = EmptyTable
    /\ lastCall = NoCall
    /\ NoAwait
    /\ NoTransfer

SpecWire == InitWire /\ [][Deserialize]_vars

ContainsSecret(value) == \E x \in SubValues(value) : isRpcSecret(x)

\* C2: whenever the wire value contains a secret envelope at any depth,
\* deserializeProperty returns a secret envelope whose payload contains no
\* secret envelope.
C2_SecretBubbling ==
    (pc = "deserialized" /\ ContainsSecret(wire))
        => (isRpcSecret(result) /\ ~ContainsSecret(Get(result, "value")))

----------------------------------------------------------------------------
(* Deserialization of resource references *)

\* the registries a program can have built before a response arrives
RegistryChoices ==
    {EmptyTable,
     registerTable(EmptyTable, moduleKey("pkg", "mod"), Entry(Str("1.2.3"), 1)),
     registerTable(EmptyTable, moduleKey("pkg", "mod"), Entry(Undefined, 1))}

\* resource-reference envelopes { sig, urn, id?, packageVersion? }
ResourceRefEnvelopes ==
    {Obj([k \in {specialSigKey, "urn"} \cup DOMAIN id \cup DOMAIN ver |->
             IF k = specialSigKey THEN Str(specialResourceSig)
             ELSE IF k = "urn" THEN Str(urn)
             ELSE IF k = "id" THEN id[k] ELSE ver[k]]) :
        urn \in {UrnTyp, UrnChild, UrnProvider, UrnBare},
        id \in {<<>>} \cup {"id" :> x : x \in {Str(""), Str("id-1"), Str(unknownValue), Null}},
        ver \in {<<>>} \cup {"packageVersion" :> x : x \in {Str("1.2.0"), Str("2.0.0")}}}

InitResourceRef ==
    /\ isDryRun \in BOOLEAN
    /\ supportsSecrets = TRUE
    /\ supportsResourceReferences = TRUE
    /\ supportsOutputValues = TRUE
    /\ pc = "serialized"
    /\ prop = Undefined
    /\ opts = Undefined
    /\ keepUnknowns = FALSE
    /\ wire \in ResourceRefEnvelopes
    /\ dependentResources = {}
    /\ result = Undefined
    /\ resourceModules \in RegistryChoices
    /\ resourcePackages \in {EmptyTable, registerTable(EmptyTable, "pkg", Entry(Str("1.5.0"), 2))}
    /\ lastCall = NoCall
    /\ NoAwait
    /\ NoTransfer

SpecResourceRef == InitResourceRef /\ [][Deserialize]_vars

\* no registered constructor matches the URN of the envelope
NoConstructor(envelope) ==
    LET parts == ParseUrn(Get(envelope, "urn").v)
        version == Get(envelope, "packageVersion")
    IN  IF parts.pkgName = "pulumi" /\ parts.modName = "providers"
        THEN getResourcePackage(parts.typName, version) = Undefined
        ELSE getResourceModule(parts.pkgName, parts.modName, version) = Undefined

\* C3: without a matching constructor, an envelope whose id field is present
\* but is the empty string deserializes to the unknown sentinel in preview or
\* with keepUnknowns (to undefined otherwise), not to the URN string.
C3_EmptyIdIsUnknown ==
    (pc = "deserialized" /\ NoConstructor(wire) /\ Get(wire, "id") = Str(""))
        => result = (IF isDryRun \/ keepUnknowns THEN unknown ELSE Undefined)

----------------------------------------------------------------------------
(* Property transfer *)

\* a promise and its settlement; a settled promise ignores later settlements
Pending == [state |-> "pending"]
Fulfilled(value) == [state |-> "fulfilled", v |-> value]
Rejected(error) == [state |-> "rejected", v |-> error]
Settle_Overwrite(promise, outcome) == outcome
Settle(promise, outcome) == IF promise.state = "pending" THEN outcome ELSE promise

\* the errors a registration can fail with
GrpcError == [t |-> "Error", grpc |-> TRUE]
OtherError == [t |-> "Error", grpc |-> FALSE]
isGrpcError(error) == error.grpc

\* the four promises transferProperties creates for one property
NewDeferreds ==
    [value |-> Pending, isKnown |-> Pending, isSecret |-> Pending, deps |-> Pending]

\* the Output transferProperties stores under onto[k]: owned by onto, its
\* promises are deferreds[k]
Placeholder(k) == [t |-> "Output", promises |-> k, resources |-> {"onto"}]

\* the arguments of one call of a resolver
Call(value, isKnown, isSecret, deps, error) ==
    [value |-> value, isKnown |-> isKnown, isSecret |-> isSecret, deps |-> deps,
     err |-> error]

\* resolvers[k](v, isKnown, isSecret, deps, err): the effect of one call on
\* the four promises d of the property
resolverCall_NoGrpcCheck(d, call) ==
    IF Truthy(call.err)
    THEN [value |-> Settle(d.value, Rejected(call.err)),
          isKnown |-> Settle(d.isKnown, Rejected(call.err)),
          isSecret |-> Settle(d.isSecret, Rejected(call.err)),
          deps |-> Settle(d.deps, Rejected(call.err))]
    ELSE [value |-> Settle(d.value, Fulfilled(call.value)),
          isKnown |-> Settle(d.isKnown, Fulfilled(call.isKnown)),
          isSecret |-> Settle(d.isSecret, Fulfilled(call.isSecret)),
          deps |-> Settle(d.deps, Fulfilled(IF call.deps = Undefined THEN Arr(<<>>)
                                             ELSE call.deps))]

resolverCall(d, call) ==
    IF Truthy(call.err)
    THEN IF isGrpcError(call.err) THEN d
         ELSE [value |-> Settle(d.value, Rejected(call.err)),
               isKnown |-> Settle(d.isKnown, Rejected(call.err)),
               isSecret |-> Settle(d.isSecret, Rejected(call.err)),
               deps |-> Settle(d.deps, Rejected(call.err))]
    ELSE [value |-> Settle(d.value, Fulfilled(call.value)),
          isKnown |-> Settle(d.isKnown, Fulfilled(call.isKnown)),
          isSecret |-> Settle(d.isSecret, Fulfilled(call.isSecret)),
          deps |-> Settle(d.deps, Fulfilled(IF call.deps = Undefined THEN Arr(<<>>)
                                             ELSE call.deps))]

\* no input key skipped
TransferredKeys_NoSkip(keys) == keys

\* the input keys transferProperties does not skip
TransferredKeys(keys) == SelectSeq(keys, LAMBDA k : k # "id" /\ k # "urn")

\* the position in keys of the first key the target already owns, or 0
ConflictAt(target, keys) ==
    IF \E i \in 1..Len(keys) : keys[i] \in DOMAIN target
    THEN CHOOSE i \in 1..Len(keys) :
            /\ keys[i] \in DOMAIN target
            /\ \A j \in 1..(i - 1) : keys[j] \notin DOMAIN target
    ELSE 0

\* nothing installed when some key is in conflict
InstalledKeys_RollBack(target, keys) ==
    LET ks == TransferredKeys(keys)
    IN  IF ConflictAt(target, ks) = 0 THEN ks ELSE <<>>

\* the keys transferProperties installs a placeholder for before it returns
\* or throws
InstalledKeys(target, keys) ==
    LET ks == TransferredKeys(keys)
    IN  IF ConflictAt(target, ks) = 0 THEN ks ELSE SubSeq(ks, 1, ConflictAt(target, ks) - 1)

SeqToSet(seq) == {seq[i] : i \in 1..Len(seq)}

\* transferProperties(onto, label, props)
TransferProperties ==
    /\ xpc = "new"
    /\ LET installed == InstalledKeys(onto, props)
           conflict == ConflictAt(onto, TransferredKeys(props)) # 0
       IN  /\ onto' = [k \in DOMAIN onto \cup SeqToSet(installed) |->
                          IF k \in DOMAIN onto THEN onto[k] ELSE Placeholder(k)]
           /\ deferreds' = [k \in SeqToSet(installed) |-> NewDeferreds]
           /\ invocations' = [k \in SeqToSet(installed) |-> <<>>]
           /\ resolvers' = IF conflict THEN <<>> ELSE installed
           /\ xpc' = IF conflict THEN "conflict" ELSE "transferred"
    /\ UNCHANGED <<settingsVars, asyncVars, marshalVars, registryVars, props, allProps, propDeps, err>>

\* the promises and the call log of every placeholder, after calling the
\* resolvers named in calls, in order
RECURSIVE invokeAll(_, _)
invokeAll(st, calls) ==
    IF calls = <<>> THEN st
    ELSE LET k == Head(calls).key
             call == Head(calls).call
         IN  invokeAll([deferreds |-> [st.deferreds EXCEPT ![k] = resolverCall(@, call)],
                        invocations |-> [st.invocations EXCEPT ![k] = Append(@, call)]],
                       Tail(calls))

\* isRpcSecret(value) as the JavaScript value `obj && obj[sig] === secretSig`
isRpcSecretValue(obj) ==
    IF Truthy(obj) THEN Bool(Get(obj, specialSigKey) = Str(specialSecretSig)) ELSE obj

\* `isDryRun` without a call: the imported function itself
isDryRunFunction == [t |-> "function"]

\* resolveProperties, error path: resolve(undefined, true, false, [], err)
\* for every resolver
rejectCalls(keys, error) ==
    [i \in 1..Len(keys) |->
        [key |-> keys[i],
         call |-> Call(Undefined, Bool(TRUE), Bool(FALSE), Arr(<<>>), error)]]

\* resolveProperties, first loop: the properties present in allProps
presentCalls(keys, props0, deps) ==
    LET ks == SelectSeq(ObjectKeys(props0),
                        LAMBDA k : k # "id" /\ k # "urn" /\ k \in SeqToSet(keys))
    IN  [i \in 1..Len(ks) |->
            [key |-> ks[i],
             call |-> Call(unwrapRpcSecret(props0.v[ks[i]]), Bool(TRUE),
                           isRpcSecretValue(props0.v[ks[i]]),
                           IF ks[i] \in DOMAIN deps THEN deps[ks[i]] ELSE Undefined,
                           Undefined)]]

\* resolveProperties, second loop with the hasOwnProperty test left out
missingCalls_NoOwnPropertyTest(keys, props0, keepUnk) ==
    [i \in 1..Len(keys) |->
        [key |-> keys[i],
         call |-> IF ~Truthy(isDryRunFunction) /\ keepUnk
                  THEN Call(unknown, Bool(TRUE), Bool(FALSE), Undefined, Undefined)
                  ELSE Call(Undefined, Bool(~isDryRun /\ ~keepUnk), Bool(FALSE),
                            Undefined, Undefined)]]

\* resolveProperties, second loop: the resolvers allProps has no value for
missingCalls(keys, props0, keepUnk) ==
    LET ks == SelectSeq(keys, LAMBDA k : k \notin DOMAIN props0.v)
    IN  [i \in 1..Len(ks) |->
            [key |-> ks[i],
             call |-> IF ~Truthy(isDryRunFunction) /\ keepUnk
                      THEN Call(unknown, Bool(TRUE), Bool(FALSE), Undefined, Undefined)
                      ELSE Call(Undefined, Bool(~isDryRun /\ ~keepUnk), Bool(FALSE),
                                Undefined, Undefined)]]

\* the calls resolveProperties makes, in order
resolveCalls(keys, props0, deps, error, keepUnk) ==
    IF Truthy(error) THEN rejectCalls(keys, error)
    ELSE presentCalls(keys, props0, deps) \o missingCalls(keys, props0, keepUnk)

\* what the engine can return for a resource whose inputs are among a, b:
\* a may be absent, plain, secret, or present and undefined (an unknown
\* outside preview); c is an output the program did not declare
AllPropsChoices ==
    {Obj([k \in DOMAIN fa \cup DOMAIN fb \cup DOMAIN fc \cup DOMAIN fid |->
             IF k \in DOMAIN fa THEN fa[k]
             ELSE IF k \in DOMAIN fb THEN fb[k]
             ELSE IF k \in DOMAIN fc THEN fc[k] ELSE fid[k]]) :
        fa \in {<<>>} \cup {"a" :> x : x \in {Num(1), SecretEnvelope(Num(1)), Undefined}},
        fb \in {<<>>, "b" :> Num(0)},
        fc \in {<<>>, "c" :> Num(1)},
        fid \in {<<>>, "id" :> Str("id-1")}}

\* the deps argument: the resources each property depends on
PropDepsChoices == {<<>>, "a" :> Arr(<<"R1">>)}

\* resolveProperties(res, resolvers, t, name, allProps, deps, err, keepUnknowns)
ResolveProperties ==
    /\ xpc = "transferred"
    /\ \E ap \in AllPropsChoices, pd \in PropDepsChoices,
          e \in {Undefined, GrpcError, OtherError}, ku \in BOOLEAN :
        /\ allProps' = ap
        /\ propDeps' = pd
        /\ err' = e
        /\ keepUnknowns' = ku
        /\ LET st == invokeAll([deferreds |-> deferreds, invocations |-> invocations],
                               resolveCalls(resolvers, ap, pd, e, ku))
           IN  /\ deferreds' = st.deferreds
               /\ invocations' = st.invocations
    /\ xpc' = "resolved"
    /\ UNCHANGED <<settingsVars, asyncVars, pc, prop, opts, wire, dependentResources, result,
                   registryVars, props, onto, resolvers>>

NextTransfer == TransferProperties \/ ResolveProperties

\* no marshaling call is under way
NoMarshal ==
    /\ pc = "idle"
    /\ prop = Undefined
    /\ opts = Undefined
    /\ keepUnknowns = FALSE
    /\ wire = Undefined
    /\ dependentResources = {}
    /\ result = Undefined

InputKeys == {"a", "b", "id", "urn"}

\* Object.keys(props): distinct keys in any order
PropsChoices ==
    {ks \in UNION {[1..n -> InputKeys] : n \in 0..Cardinality(InputKeys)} :
        \A i, j \in 1..Len(ks) : i # j => ks[i] # ks[j]}

\* a resource under construction: the constructor may have set b itself
InitTransfer ==
    /\ isDryRun \in BOOLEAN
    /\ supportsSecrets = TRUE
    /\ supportsResourceReferences = TRUE
    /\ supportsOutputValues = TRUE
    /\ NoMarshal
    /\ resourceModules = EmptyTable
    /\ resourcePackages = EmptyTable
    /\ lastCall = NoCall
    /\ NoAwait
    /\ xpc = "new"
    /\ props \in PropsChoices
    /\ onto \in {<<>>, "b" :> Str("set by the constructor")}
    /\ resolvers = <<>>
    /\ deferreds = <<>>
    /\ invocations = <<>>
    /\ allProps = Undefined
    /\ propDeps = <<>>
    /\ err = Undefined

SpecTransfer == InitTransfer /\ [][NextTransfer]_vars

\* the four promises of property k
AllPending(k) ==
    /\ deferreds[k].value = Pending
    /\ deferreds[k].isKnown = Pending
    /\ deferreds[k].isSecret = Pending
    /\ deferreds[k].deps = Pending

AllFulfilled(k) ==
    /\ deferreds[k].value.state = "fulfilled"
    /\ deferreds[k].isKnown.state = "fulfilled"
    /\ deferreds[k].isSecret.state = "fulfilled"
    /\ deferreds[k].deps.state = "fulfilled"

AllRejectedWith(k, error) ==
    /\ deferreds[k].value = Rejected(error)
    /\ deferreds[k].isKnown = Rejected(error)
    /\ deferreds[k].isSecret = Rejected(error)
    /\ deferreds[k].deps = Rejected(error)

\* C4: after resolveProperties without an error, a resolver whose name is
\* not a key of allProps has been called with (unknown, isKnown = true) when
\* not in preview and keepUnknowns is true, and with (undefined, isKnown =
\* not preview and not keepUnknowns) otherwise; isSecret is false in both.
C4_MissingKeys ==
    (xpc = "resolved" /\ err = Undefined)
        => \A k \in SeqToSet(resolvers) :
            k \notin DOMAIN allProps.v =>
                \E i \in 1..Len(invocations[k]) :
                    LET call == invocations[k][i]
                    IN  /\ call.isSecret = Bool(FALSE)
                        /\ IF ~isDryRun /\ keepUnknowns
                           THEN call.value = unknown /\ call.isKnown = Bool(TRUE)
                           ELSE /\ call.value = Undefined
                                /\ call.isKnown = Bool(~isDryRun /\ ~keepUnknowns)

\* C5: after transferProperties and one resolveProperties without an error,
\* every resolver has been called exactly once and all four promises of
\* every placeholder are fulfilled.
C5_ExactlyOnce ==
    (xpc = "resolved" /\ err = Undefined)
        => \A k \in SeqToSet(resolvers) : Len(invocations[k]) = 1 /\ AllFulfilled(k)

\* one resolver was called by the allProps loop, another by the missing-key
\* loop
C5_Witness ==
    /\ xpc = "resolved"
    /\ err = Undefined
    /\ SeqToSet(resolvers) = {"a", "b"}
    /\ "a" \in DOMAIN allProps.v
    /\ "b" \notin DOMAIN allProps.v
    /\ Len(invocations["a"]) = 1
    /\ Len(invocations["b"]) = 1
    /\ AllFulfilled("a")
    /\ AllFulfilled("b")

\* C6: resolveProperties with an error calls every resolver once with
\* (undefined, true, false, [], err) whatever allProps holds; a gRPC error
\* leaves the four promises pending, any other error rejects all four with it.
C6_ErrorPath ==
    (xpc = "resolved" /\ err # Undefined)
        => \A k \in SeqToSet(resolvers) :
            /\ invocations[k] = <<Call(Undefined, Bool(TRUE), Bool(FALSE), Arr(<<>>), err)>>
            /\ isGrpcError(err) => AllPending(k)
            /\ ~isGrpcError(err) => AllRejectedWith(k, err)

\* a gRPC error reached a resolver although allProps held a value for it
C6_WitnessGrpc ==
    /\ xpc = "resolved"
    /\ err = GrpcError
    /\ "a" \in SeqToSet(resolvers)
    /\ "a" \in DOMAIN allProps.v
    /\ AllPending("a")

----------------------------------------------------------------------------
(* Registration and lookup *)

\* the greatest number of entries the two registries hold together
MaxEntries == 3

\* the version of a module or package: absent, or one of the version strings
VersionChoices ==
    {Undefined, Str("1.2.3"), Str("1.2.3+build"), Str("1.5.0-rc"), Str("1.5.0"),
     Str("2.0.0")}

\* the version a resource reference asks for: absent, or a version string
WantedVersions == {Undefined, Str("1.2.0"), Str("1.2.3"), Str("1.5.0"), Str("2.0.0")}

RECURSIVE SumLen(_, _)
SumLen(source, keys) ==
    IF keys = {} THEN 0
    ELSE LET k == CHOOSE x \in keys : TRUE
         IN  Len(source[k]) + SumLen(source, keys \ {k})

TotalEntries == SumLen(resourceModules, DOMAIN resourceModules)
                + SumLen(resourcePackages, DOMAIN resourcePackages)

\* registerResourceModule(pkg, mod, module)
RegisterResourceModule ==
    /\ TotalEntries < MaxEntries
    /\ \E version \in VersionChoices :
        LET key == moduleKey("pkg", "mod")
            item == Entry(version, TotalEntries + 1)
        IN  /\ resourceModules' = registerTable(resourceModules, key, item)
            /\ lastCall' = [op |-> "register", key |-> key, item |-> item,
                        before |-> ItemsOf(resourceModules, key),
                        returned |-> registerReturns(resourceModules, key, item)]
    /\ UNCHANGED <<settingsVars, asyncVars, marshalVars, transferVars, resourcePackages>>

\* registerResourcePackage(pkg, resourcePackage)
RegisterResourcePackage ==
    /\ TotalEntries < MaxEntries
    /\ \E version \in VersionChoices :
        LET key == "pkg"
            item == Entry(version, TotalEntries + 1)
        IN  /\ resourcePackages' = registerTable(resourcePackages, key, item)
            /\ lastCall' = [op |-> "register", key |-> key, item |-> item,
                        before |-> ItemsOf(resourcePackages, key),
                        returned |-> registerReturns(resourcePackages, key, item)]
    /\ UNCHANGED <<settingsVars, asyncVars, marshalVars, transferVars, resourceModules>>

\* getResourceModule(pkg, mod, version)
GetResourceModule ==
    /\ \E version \in WantedVersions :
        lastCall' = [op |-> "lookup", key |-> moduleKey("pkg", "mod"), version |-> version,
                 items |-> ItemsOf(resourceModules, moduleKey("pkg", "mod")),
                 returned |-> getResourceModule("pkg", "mod", version)]
    /\ UNCHANGED <<settingsVars, asyncVars, marshalVars, transferVars, resourceModules, resourcePackages>>

\* getResourcePackage(pkg, version)
GetResourcePackage ==
    /\ \E version \in WantedVersions :
        lastCall' = [op |-> "lookup", key |-> "pkg", version |-> version,
                 items |-> ItemsOf(resourcePackages, "pkg"),
                 returned |-> getResourcePackage("pkg", version)]
    /\ UNCHANGED <<settingsVars, asyncVars, marshalVars, transferVars, resourceModules, resourcePackages>>

NextRegistry ==
    \/ RegisterResourceModule
    \/ RegisterResourcePackage
    \/ GetResourceModule
    \/ GetResourcePackage

\* no resource registration is under way and no module is loaded yet
InitRegistry ==
    /\ isDryRun = FALSE
    /\ supportsSecrets = TRUE
    /\ supportsResourceReferences = TRUE
    /\ supportsOutputValues = TRUE
    /\ NoMarshal
    /\ NoTransfer
    /\ resourceModules = EmptyTable
    /\ resourcePackages = EmptyTable
    /\ lastCall = NoCall
    /\ NoAwait

SpecRegistry == InitRegistry /\ [][NextRegistry]_vars

\* major.minor.patch and release rank of the version strings, read off the
\* strings themselves
Triple(version) ==
    CASE version = Str("1.2.0") -> <<1, 2, 0, 1>>
      [] version = Str("1.2.3") -> <<1, 2, 3, 1>>
      [] version = Str("1.2.3+build") -> <<1, 2, 3, 1>>
      [] version = Str("1.5.0-rc") -> <<1, 5, 0, 0>>
      [] version = Str("1.5.0") -> <<1, 5, 0, 1>>
      [] version = Str("2.0.0") -> <<2, 0, 0, 1>>

\* semver precedence: x is greater than y
Greater(x, y) ==
    \E i \in 1..4 : Triple(x)[i] > Triple(y)[i] /\ \A j \in 1..(i - 1) : Triple(x)[j] = Triple(y)[j]

\* have is compatible with the requested floor want
Compatible(want, have) ==
    \/ want = Undefined
    \/ /\ Triple(have)[1] = Triple(want)[1]
       /\ Triple(have)[2] >= Triple(want)[2]
       /\ Triple(have)[3] >= Triple(want)[3]

AllVersioned(items) == \A i \in 1..Len(items) : items[i].version # Undefined

\* C7: on a key whose entries all carry versions, lookup returns the entry
\* with the greatest version among the compatible entries (same major, minor
\* and patch at least the requested ones; every entry when no version is
\* requested) and undefined when no entry is compatible.
C7_GreatestCompatible ==
    (lastCall.op = "lookup" /\ AllVersioned(lastCall.items))
        => LET compatible == {i \in 1..Len(lastCall.items) :
                                 Compatible(lastCall.version, lastCall.items[i].version)}
           IN  IF compatible = {} THEN lastCall.returned = Undefined
               ELSE \E i \in compatible :
                        /\ lastCall.returned = lastCall.items[i]
                        /\ \A j \in compatible :
                               ~Greater(lastCall.items[j].version, lastCall.items[i].version)

\* 1.2.3 and 1.5.0 are registered and the lookup with 1.2.0 returned 1.5.0
C7_Witness ==
    /\ lastCall.op = "lookup"
    /\ Len(lastCall.items) = 2
    /\ lastCall.items[1].version = Str("1.2.3")
    /\ lastCall.items[2].version = Str("1.5.0")
    /\ lastCall.version = Str("1.2.0")
    /\ lastCall.returned = lastCall.items[2]

\* an entry of items has a version equal to version, an absent version
\* counting as equal to anything
HasEqualVersion(items, version) ==
    \E i \in 1..Len(items) :
        \/ items[i].version = Undefined
        \/ version = Undefined
        \/ Triple(items[i].version) = Triple(version)

\* the entries of the key the last call was about
CurrentItems ==
    IF lastCall.key = "pkg" THEN ItemsOf(resourcePackages, lastCall.key)
    ELSE ItemsOf(resourceModules, lastCall.key)

\* C8: register returns true and appends the entry when no entry of the key
\* has an equal version, and returns false and leaves the table as it was
\* when one has.
C8_IdempotentRegister ==
    lastCall.op = "register"
        => IF HasEqualVersion(lastCall.before, lastCall.item.version)
           THEN lastCall.returned = FALSE /\ CurrentItems = lastCall.before
           ELSE lastCall.returned = TRUE /\ CurrentItems = Append(lastCall.before, lastCall.item)

\* the same version of the same key was registered again: the second call
\* returned false and the key still holds its one entry
C8_Witness ==
    /\ lastCall.op = "register"
    /\ lastCall.before = <<Entry(Str("1.2.3"), 1)>>
    /\ lastCall.item.version = Str("1.2.3")
    /\ lastCall.returned = FALSE
    /\ CurrentItems = <<Entry(Str("1.2.3"), 1)>>

\* the entry list of a key is well formed: it is not empty, and it is one
\* entry without a version or entries that all have versions, no two of them
\* equal in semver precedence
WellFormed(items) ==
    /\ items # <<>>
    /\ \/ Len(items) = 1 /\ items[1].version = Undefined
       \/ /\ AllVersioned(items)
          /\ \A i, j \in 1..Len(items) :
                i # j => Triple(items[i].version) # Triple(items[j].version)

\* every list of the table before is the beginning of the list of the same
\* key in the table after
Extends(before, after) ==
    \A k \in DOMAIN before :
        /\ k \in DOMAIN after
        /\ Len(before[k]) <= Len(after[k])
        /\ SubSeq(after[k], 1, Len(before[k])) = before[k]

\* the item of the last register call met an entry without a version, or had
\* no version itself and met an entry
Blocked ==
    \/ \E i \in 1..Len(lastCall.before) : lastCall.before[i].version = Undefined
    \/ lastCall.item.version = Undefined /\ lastCall.before # <<>>

\* C21: after any sequence of register calls on empty tables, the entry list
\* of every key is non-empty and is a single entry without a version or a
\* list of versioned, pairwise semver-distinct entries; no step removes,
\* replaces or reorders an existing entry; a registration that meets an
\* entry without a version, or one without a version that meets any entry,
\* returns false and leaves the list as it was.
C21_RegistryTableInvariant ==
    /\ [](/\ \A k \in DOMAIN resourceModules : WellFormed(resourceModules[k])
          /\ \A k \in DOMAIN resourcePackages : WellFormed(resourcePackages[k])
          /\ (lastCall.op = "register" /\ Blocked)
                => lastCall.returned = FALSE /\ CurrentItems = lastCall.before)
    /\ [][/\ Extends(resourceModules, resourceModules')
          /\ Extends(resourcePackages, resourcePackages')]_vars

\* 1.2.3 and 1.5.0 are registered for the package; registering it without a
\* version returned false and the two entries are as they were
C21_Witness ==
    /\ lastCall.op = "register"
    /\ lastCall.key = "pkg"
    /\ lastCall.before = <<Entry(Str("1.2.3"), 1), Entry(Str("1.5.0"), 2)>>
    /\ lastCall.item.version = Undefined
    /\ lastCall.returned = FALSE
    /\ resourcePackages["pkg"] = lastCall.before

-----------------------------------------------------------------------------
(* Lazy values through the forward marshaler *)

\* what awaiting isSecret gives for an output of an SDK without that member:
\* an output wrapping undefined
LegacyIsSecret == Output(Undefined, Bool(TRUE), Bool(FALSE), {})

\* the values a lazy value of the model resolves to
InnerValues ==
    {Undefined, Num(7), Arr(<<Undefined>>),
     Output(Num(7), Bool(TRUE), Bool(TRUE), {"R2"}),
     Output(Num(7), Bool(FALSE), Bool(FALSE), {"C1"}),
     Obj("a" :> Output(Num(7), Bool(TRUE), Bool(FALSE), {}))}

\* the lazy values handed to serializeProperty
LazyValues ==
    {Output(value, Bool(known), secret, resources) :
        value \in InnerValues, known \in BOOLEAN,
        secret \in {Bool(TRUE), Bool(FALSE), LegacyIsSecret},
        resources \in SUBSET {"R1", "C1"}}

\* a program about to serialize a lazy value, under any options and any
\* capabilities of the peer
InitLazy ==
    /\ isDryRun = FALSE
    /\ supportsSecrets \in BOOLEAN
    /\ supportsResourceReferences = TRUE
    /\ supportsOutputValues \in BOOLEAN
    /\ pc = "input"
    /\ prop \in LazyValues
    /\ opts \in {Undefined, Options(TRUE, FALSE), Options(FALSE, FALSE)}
    /\ keepUnknowns = FALSE
    /\ wire = Undefined
    /\ dependentResources = {}
    /\ result = Undefined
    /\ resourceModules = EmptyTable
    /\ resourcePackages = EmptyTable
    /\ lastCall = NoCall
    /\ NoAwait
    /\ NoTransfer

SpecLazy == InitLazy /\ [][NextMarshal]_vars

\* the lazy value of the run has been serialized
LazySerialized == pc # "input" /\ prop.t = "Output"

\* the run keeps output values: the option is set and the peer supports them
KeepsOutputValues == OptKeepOutputValues(opts) /\ supportsOutputValues

\* the serialized inner value of the lazy value of the run
SerializedInner == serializeProperty(prop.value, TRUE, KeepOutputValuesFalse).v

\* C9 as stated: without keepOutputValues (or with a peer that does not
\* support output values) a lazy value serializes to the unknown marker when
\* it is not known, to a secret envelope around the serialized inner value
\* when it is known, secret and the peer supports secrets, and to the plain
\* serialized inner value otherwise; its resources are in the dep set.
C9_CollapsedAroundInner ==
    (LazySerialized /\ ~KeepsOutputValues)
        => /\ wire = IF prop.isKnown # Bool(TRUE) THEN Str(unknownValue)
                     ELSE IF prop.isSecret = Bool(TRUE) /\ supportsSecrets
                          THEN SecretEnvelope(SerializedInner)
                     ELSE SerializedInner
           /\ prop.resources \subseteq dependentResources

\* C9: the same, the secret envelope holding null where the serialized inner
\* value is undefined.
C9_Collapsed ==
    (LazySerialized /\ ~KeepsOutputValues)
        => /\ wire = IF prop.isKnown # Bool(TRUE) THEN Str(unknownValue)
                     ELSE IF prop.isSecret = Bool(TRUE) /\ supportsSecrets
                          THEN SecretEnvelope(IF SerializedInner = Undefined THEN Null
                                              ELSE SerializedInner)
                     ELSE SerializedInner
           /\ prop.resources \subseteq dependentResources

\* a known secret 7 depending on R1 went to a peer that supports secrets and
\* came out as a secret envelope around 7, R1 in the dep set
C9_Witness ==
    /\ LazySerialized
    /\ ~KeepsOutputValues
    /\ supportsSecrets
    /\ prop = Output(Num(7), Bool(TRUE), Bool(TRUE), {"R1"})
    /\ wire = SecretEnvelope(Num(7))
    /\ dependentResources = {"R1"}

\* the resources of a value: those of its lazy values, at any depth
RECURSIVE ResourcesIn(_)
ResourcesIn(value) ==
    CASE value.t = "Output" -> value.resources \cup ResourcesIn(value.value)
      [] value.t = "array" -> UNION {ResourcesIn(value.v[i]) : i \in 1..Len(value.v)}
      [] value.t = "object" -> UNION {ResourcesIn(value.v[k]) : k \in DOMAIN value.v}
      [] OTHER -> {}

\* value is an output-value envelope
IsOutputValueEnvelope(value) ==
    value.t = "object" /\ Get(value, specialSigKey) = Str(specialOutputValueSig)

\* C10: with keepOutputValues and a peer that supports output values a lazy
\* value serializes to an output-value envelope that has a value key iff the
\* value is known (undefined written as null), a secret: true key iff the
\* value is secret, a dependencies key iff the transitive URN set of the
\* contributing resources is non-empty, and no output-value envelope inside
\* its value payload.
C10_OutputValueEnvelope ==
    (LazySerialized /\ KeepsOutputValues)
        => LET urns == getAllTransitivelyReferencedResourceURNs(ResourcesIn(prop))
           IN  /\ IsOutputValueEnvelope(wire)
               /\ DOMAIN wire.v \subseteq {specialSigKey, "value", "secret", "dependencies"}
               /\ "value" \in DOMAIN wire.v <=> prop.isKnown = Bool(TRUE)
               /\ "value" \in DOMAIN wire.v
                    => /\ wire.v["value"] = IF SerializedInner = Undefined THEN Null
                                            ELSE SerializedInner
                       /\ \A x \in SubValues(wire.v["value"]) : ~IsOutputValueEnvelope(x)
               /\ "secret" \in DOMAIN wire.v <=> prop.isSecret = Bool(TRUE)
               /\ "secret" \in DOMAIN wire.v => wire.v["secret"] = Bool(TRUE)
               /\ "dependencies" \in DOMAIN wire.v <=> urns # <<>>
               /\ "dependencies" \in DOMAIN wire.v => wire.v["dependencies"] = Arr(urns)

\* a known secret 7 depending on R1 came out as an envelope with value 7,
\* secret true and the URN of R1 as its dependencies
C10_Witness ==
    /\ LazySerialized
    /\ KeepsOutputValues
    /\ prop = Output(Num(7), Bool(TRUE), Bool(TRUE), {"R1"})
    /\ wire = Obj(specialSigKey :> Str(specialOutputValueSig) @@ "value" :> Num(7)
                  @@ "secret" :> Bool(TRUE) @@ "dependencies" :> Arr(<<Str("urn:R1")>>))

-----------------------------------------------------------------------------
(* Values holding resources through the forward marshaler *)

\* the keys of the objects that hold resources
TreeKeys == <<"a", "b">>

\* values built from the given leaves with sequences and objects, by number
\* of nodes
RECURSIVE TreesOfSize(_, _), TreeListsOfSize(_, _)
TreesOfSize(leaves, n) ==
    (IF n = 1 THEN leaves ELSE {})
    \cup {Arr(l) : l \in TreeListsOfSize(leaves, n - 1)}
    \cup UNION {ObjectsOf(l, TreeKeys) : l \in TreeListsOfSize(leaves, n - 1)}

TreeListsOfSize(leaves, n) ==
    IF n = 0 THEN {<<>>}
    ELSE UNION {{<<x>> \o l : x \in TreesOfSize(leaves, k),
                              l \in TreeListsOfSize(leaves, n - k)} : k \in 1..n}

\* the values of at most max nodes over the given leaves
Trees(leaves, max) == UNION {TreesOfSize(leaves, n) : n \in 1..max}

\* the leaves of a value that holds custom resources
ResourceLeaves == {CustomResource("R1"), CustomResource("R2"), Num(1)}

\* a program about to serialize a value that holds custom resources, under
\* any options and with or without resource references
InitResourceDeps ==
    /\ isDryRun = FALSE
    /\ supportsSecrets = TRUE
    /\ supportsResourceReferences \in BOOLEAN
    /\ supportsOutputValues = TRUE
    /\ pc = "input"
    /\ prop \in Trees(ResourceLeaves, MaxNodes)
    /\ opts \in {Undefined, Options(FALSE, FALSE), Options(FALSE, TRUE), Options(TRUE, TRUE)}
    /\ keepUnknowns = FALSE
    /\ wire = Undefined
    /\ dependentResources = {}
    /\ result = Undefined
    /\ resourceModules = EmptyTable
    /\ resourcePackages = EmptyTable
    /\ lastCall = NoCall
    /\ NoAwait
    /\ NoTransfer

SpecResourceDeps == InitResourceDeps /\ [][NextMarshal]_vars

\* the custom resources a value contains
CustomResourcesIn(value) ==
    {x.name : x \in {y \in SubValues(value) : y.t = "CustomResource"}}

\* C11: the dep set after serializing a value built from sequences and
\* objects equals the set of the custom resources it contains, unless
\* excludeResourceReferencesFromDependencies is set and the peer supports
\* resource references, in which case it is empty.
C11_DependencyCollection ==
    pc # "input"
        => dependentResources =
              IF OptExcludeResourceReferences(opts) /\ supportsResourceReferences
              THEN {}
              ELSE CustomResourcesIn(prop)

\* a value holding R1 and R2 was serialized with the option set for a peer
\* without resource references, and both resources are in the dep set
C11_Witness ==
    /\ pc = "serialized"
    /\ prop = Arr(<<CustomResource("R1"), Obj("a" :> CustomResource("R2"))>>)
    /\ OptExcludeResourceReferences(opts)
    /\ ~supportsResourceReferences
    /\ dependentResources = {"R1", "R2"}

-----------------------------------------------------------------------------
(* Unknown values through both marshalers *)

\* the leaves of a value that may hold unknowns: the unknown sentinel, a lazy
\* value that is not known, a known lazy value, and a primitive
UnknownLeaves ==
    {unknown, Output(Undefined, Bool(FALSE), Bool(FALSE), {}),
     Output(Num(1), Bool(TRUE), Bool(FALSE), {}), Num(1)}

\* a program about to serialize a value that may hold unknowns, in preview
\* or not, with or without output-value envelopes
InitUnknown ==
    /\ isDryRun \in BOOLEAN
    /\ supportsSecrets = TRUE
    /\ supportsResourceReferences = TRUE
    /\ supportsOutputValues \in BOOLEAN
    /\ pc = "input"
    /\ prop \in Trees(UnknownLeaves, MaxNodes)
    /\ opts \in {Undefined, Options(TRUE, FALSE)}
    /\ keepUnknowns = FALSE
    /\ wire = Undefined
    /\ dependentResources = {}
    /\ result = Undefined
    /\ resourceModules = EmptyTable
    /\ resourcePackages = EmptyTable
    /\ lastCall = NoCall
    /\ NoAwait
    /\ NoTransfer

SpecUnknown == InitUnknown /\ [][NextMarshal]_vars

\* some leaf of value is the unknown sentinel, or a lazy value that is not
\* known when lazy values are serialized without output-value envelopes
HasUnknownLeaf(value) ==
    \E x \in SubValues(value) :
        \/ x.t = "unknown"
        \/ x.t = "Output" /\ x.isKnown = Bool(FALSE) /\ ~KeepsOutputValues

\* what the unknown marker deserializes to in the mode of the run
UnknownMarkerResult == IF isDryRun \/ keepUnknowns THEN unknown ELSE Undefined

\* every unknown marker of w outside an envelope came out, at the same place
\* of r, as the unknown sentinel or as undefined according to the mode
RECURSIVE MarkersMapped(_, _)
MarkersMapped(w, r) ==
    IF w = Str(unknownValue) THEN r = UnknownMarkerResult
    ELSE IF w.t = "array"
    THEN r.t = "array" /\ Len(r.v) = Len(w.v)
         /\ \A i \in 1..Len(w.v) : MarkersMapped(w.v[i], r.v[i])
    ELSE IF w.t = "object" /\ specialSigKey \notin DOMAIN w.v
    THEN r.t = "object" /\ DOMAIN r.v = DOMAIN w.v
         /\ \A k \in DOMAIN w.v : MarkersMapped(w.v[k], r.v[k])
    ELSE TRUE

\* C13: if a leaf of the value is the unknown sentinel (or a lazy value that
\* is not known, serialized without output-value envelopes), the serialized
\* value contains unknowns; and deserializeProperty maps the unknown marker
\* to the unknown sentinel exactly when the process is in preview or
\* keepUnknowns is true, and to undefined otherwise.
C13_UnknownPropagation ==
    /\ (pc # "input" /\ HasUnknownLeaf(prop)) => containsUnknownValues(wire)
    /\ pc = "deserialized" => MarkersMapped(wire, result)

\* outside preview and without keepUnknowns, [1, unknown] went out as
\* [1, marker] and came back as [1, undefined]
C13_Witness ==
    /\ pc = "deserialized"
    /\ ~isDryRun
    /\ ~keepUnknowns
    /\ prop = Arr(<<Num(1), unknown>>)
    /\ wire = Arr(<<Num(1), Str(unknownValue)>>)
    /\ containsUnknownValues(wire)
    /\ result = Arr(<<Num(1), Undefined>>)

-----------------------------------------------------------------------------
(* Undefined values through the forward marshaler *)

\* the leaves of a value that may hold undefined: undefined itself, a known
\* lazy value that resolves to undefined, null and a number
JsonLeaves ==
    {Undefined, Output(Undefined, Bool(TRUE), Bool(FALSE), {}), Null, Num(1)}

\* { a: 1, b: undefined, c: [2, undefined] }
JsonExample ==
    Obj("a" :> Num(1) @@ "b" :> Undefined @@ "c" :> Arr(<<Num(2), Undefined>>))

\* a program about to serialize a value that may hold undefined
InitJson ==
    /\ isDryRun \in BOOLEAN
    /\ supportsSecrets = TRUE
    /\ supportsResourceReferences = TRUE
    /\ supportsOutputValues = TRUE
    /\ pc = "input"
    /\ prop \in Trees(JsonLeaves, MaxNodes) \cup {JsonExample}
    /\ opts = Undefined
    /\ keepUnknowns = FALSE
    /\ wire = Undefined
    /\ dependentResources = {}
    /\ result = Undefined
    /\ resourceModules = EmptyTable
    /\ resourcePackages = EmptyTable
    /\ lastCall = NoCall
    /\ NoAwait
    /\ NoTransfer

SpecJson == InitJson /\ [][NextMarshal]_vars

\* the serialization of a value nested in the value of the run
SerializedPart(x) ==
    IF x = prop THEN wire ELSE serializeProperty(x, TRUE, opts).v

\* C14: a sequence serializes to a sequence of the same length and order in
\* which every element whose serialization is undefined is null, and an
\* object to an object with exactly the keys whose serialized value is not
\* undefined; { a: 1, b: undefined, c: [2, undefined] } serializes to
\* { a: 1, c: [2, null] }.
C14_JsonUndefined ==
    pc # "input"
        => /\ \A x \in SubValues(prop) :
                LET w == SerializedPart(x)
                IN  /\ x.t = "array"
                        => /\ w.t = "array"
                           /\ Len(w.v) = Len(x.v)
                           /\ \A i \in 1..Len(x.v) :
                                w.v[i] = IF SerializedPart(x.v[i]) = Undefined THEN Null
                                         ELSE SerializedPart(x.v[i])
                    /\ x.t = "object"
                        => /\ w.t = "object"
                           /\ DOMAIN w.v = {k \in DOMAIN x.v : SerializedPart(x.v[k]) # Undefined}
                           /\ \A k \in DOMAIN w.v : w.v[k] = SerializedPart(x.v[k])
           /\ prop = JsonExample
                => wire = Obj("a" :> Num(1) @@ "c" :> Arr(<<Num(2), Null>>))

\* the example object was serialized: b is gone, the array kept its length
C14_Witness ==
    /\ pc = "serialized"
    /\ prop = JsonExample
    /\ DOMAIN wire.v = {"a", "c"}
    /\ wire.v["c"] = Arr(<<Num(2), Null>>)

-----------------------------------------------------------------------------
(* Resolvers called one at a time *)

\* the greatest number of calls of one resolver
MaxCalls == 2

\* a second error that is not a gRPC error
AnotherError == [t |-> "Error", grpc |-> FALSE, message |-> "another"]

\* the arguments a holder of the resolver map can call a resolver with
CallChoices ==
    {Call(Num(1), Bool(TRUE), Bool(FALSE), Undefined, Undefined),
     Call(Undefined, Bool(TRUE), Bool(FALSE), Arr(<<>>), GrpcError),
     Call(Undefined, Bool(TRUE), Bool(FALSE), Arr(<<>>), OtherError),
     Call(Undefined, Bool(TRUE), Bool(FALSE), Arr(<<>>), AnotherError)}

\* resolvers[k](v, isKnown, isSecret, deps, err), by whoever holds the map
\* transferProperties returned
InvokeResolver ==
    /\ xpc = "transferred"
    /\ \E k \in SeqToSet(resolvers), call \in CallChoices :
        /\ Len(invocations[k]) < MaxCalls
        /\ deferreds' = [deferreds EXCEPT ![k] = resolverCall(@, call)]
        /\ invocations' = [invocations EXCEPT ![k] = Append(@, call)]
    /\ UNCHANGED <<settingsVars, asyncVars, marshalVars, registryVars, xpc, props, onto, resolvers,
                   allProps, propDeps, err>>

NextResolvers == TransferProperties \/ InvokeResolver

\* a resource under construction: the constructor may have set b or id
InitResolvers ==
    /\ isDryRun = FALSE
    /\ supportsSecrets = TRUE
    /\ supportsResourceReferences = TRUE
    /\ supportsOutputValues = TRUE
    /\ NoMarshal
    /\ resourceModules = EmptyTable
    /\ resourcePackages = EmptyTable
    /\ lastCall = NoCall
    /\ NoAwait
    /\ xpc = "new"
    /\ props \in PropsChoices
    /\ onto \in {<<>>, "b" :> Str("set by the constructor"),
                 "id" :> Str("set by the constructor")}
    /\ resolvers = <<>>
    /\ deferreds = <<>>
    /\ invocations = <<>>
    /\ allProps = Undefined
    /\ propDeps = <<>>
    /\ err = Undefined

SpecResolvers == InitResolvers /\ [][NextResolvers]_vars

\* the input keys other than id and urn
OrdinaryKeys == SeqToSet(props) \ {"id", "urn"}

\* C15: after transferProperties has returned, the resolver map has exactly
\* one resolver per input key other than id and urn, the target owns under
\* each of those keys a lazy value owned by the target itself, the four
\* promises of a key whose resolver has not been called are pending, and id
\* and urn hold no placeholder.
C15_PlaceholdersPending ==
    xpc = "transferred"
        => /\ SeqToSet(resolvers) = OrdinaryKeys
           /\ Len(resolvers) = Cardinality(OrdinaryKeys)
           /\ \A k \in OrdinaryKeys :
                /\ k \in DOMAIN onto
                /\ onto[k].t = "Output"
                /\ onto[k].resources = {"onto"}
                /\ onto[k].promises = k
                /\ invocations[k] = <<>> => AllPending(k)
           /\ \A k \in {"id", "urn"} :
                /\ k \notin DOMAIN deferreds
                /\ k \in DOMAIN onto => onto[k].t # "Output"

\* a and b were transferred along with id: the resolver of a has settled its
\* placeholder, that of b is still pending, and id is what the constructor set
C15_Witness ==
    /\ xpc = "transferred"
    /\ SeqToSet(props) = {"a", "b", "id"}
    /\ SeqToSet(resolvers) = {"a", "b"}
    /\ "id" \in DOMAIN onto
    /\ onto["id"] = Str("set by the constructor")
    /\ AllFulfilled("a")
    /\ invocations["b"] = <<>>
    /\ AllPending("b")

\* the input key at position i comes before every conflicting key
BeforeConflict(i) ==
    \A j \in 1..i : props[j] \in OrdinaryKeys => props[j] \notin DOMAIN onto

\* the step of transferProperties on a target that already owns an input key
\* other than id and urn
ConflictingTransfer ==
    /\ xpc = "new"
    /\ xpc' # "new"
    /\ OrdinaryKeys \cap DOMAIN onto # {}

\* C16: when the target already owns an input key other than id and urn,
\* transferProperties raises the conflict, returns no resolver map and leaves
\* every existing property as it was; the placeholders of the keys before
\* the conflicting one are on the target, no later key is installed, and
\* those placeholders stay pending since no resolver can be called.
C16_PropertyConflict ==
    /\ [][ConflictingTransfer
            => /\ xpc' = "conflict"
               /\ resolvers' = <<>>
               /\ \A k \in DOMAIN onto : k \in DOMAIN onto' /\ onto'[k] = onto[k]
               /\ \A i \in 1..Len(props) :
                    props[i] \in OrdinaryKeys
                        => IF BeforeConflict(i)
                           THEN /\ props[i] \in DOMAIN onto'
                                /\ onto'[props[i]] = Placeholder(props[i])
                                /\ deferreds'[props[i]] = NewDeferreds
                           ELSE /\ props[i] \notin DOMAIN deferreds'
                                /\ props[i] \in DOMAIN onto' => props[i] \in DOMAIN onto]_vars
    /\ [](xpc = "conflict"
            => /\ resolvers = <<>>
               /\ ~ENABLED InvokeResolver
               /\ \A k \in DOMAIN deferreds : invocations[k] = <<>> /\ AllPending(k))

\* a was installed before the conflict on b was met: b is what the
\* constructor set, a is a pending placeholder without a resolver
C16_Witness ==
    /\ xpc = "conflict"
    /\ props = <<"a", "b">>
    /\ resolvers = <<>>
    /\ DOMAIN onto = {"a", "b"}
    /\ onto["b"] = Str("set by the constructor")
    /\ onto["a"] = Placeholder("a")
    /\ AllPending("a")

\* the four promises of property k are settled
Settled(k) ==
    /\ deferreds[k].value # Pending
    /\ deferreds[k].isKnown # Pending
    /\ deferreds[k].isSecret # Pending
    /\ deferreds[k].deps # Pending

\* the errors a resolver can be called with
Errors == {GrpcError, OtherError, AnotherError}

\* C20: whatever resolvers are called, in any order and any number of times,
\* the four promises of a placeholder are all pending, all fulfilled, or all
\* rejected with the same error, and once settled no later call changes them.
C20_AtomicPlaceholder ==
    /\ [](\A k \in DOMAIN deferreds :
            \/ AllPending(k)
            \/ AllFulfilled(k)
            \/ \E error \in Errors : AllRejectedWith(k, error))
    /\ [][\A k \in DOMAIN deferreds :
            Settled(k) => k \in DOMAIN deferreds' /\ deferreds'[k] = deferreds[k]]_vars

\* the resolver of a was called with a value and then with an error: the
\* four promises are still fulfilled
C20_Witness ==
    /\ xpc = "transferred"
    /\ "a" \in DOMAIN deferreds
    /\ Len(invocations["a"]) = 2
    /\ invocations["a"][1].err = Undefined
    /\ invocations["a"][2].err = OtherError
    /\ AllFulfilled("a")
    /\ deferreds["a"].value = Fulfilled(Num(1))

-----------------------------------------------------------------------------
(* Lookup in a table of any content *)

\* the versions of the entries of a table handed to getRegistration
LookupVersions == {Undefined, Str("1.2.3"), Str("1.5.0"), Str("2.0.0")}

\* the entry lists of at most max entries, each entry tagged by its position
EntryLists(max) ==
    UNION {{[i \in 1..n |-> Entry(vs[i], i)] : vs \in [1..n -> LookupVersions]} : n \in 1..max}

\* a Map<string, T[]> of any content under the keys the lookups use
InitLookup ==
    /\ isDryRun = FALSE
    /\ supportsSecrets = TRUE
    /\ supportsResourceReferences = TRUE
    /\ supportsOutputValues = TRUE
    /\ NoMarshal
    /\ NoTransfer
    /\ \E items \in EntryLists(MaxEntries) :
        resourceModules = (moduleKey("pkg", "mod") :> items)
    /\ \E items \in EntryLists(2) : resourcePackages = ("pkg" :> items)
    /\ lastCall = NoCall
    /\ NoAwait

NextLookup == GetResourceModule \/ GetResourcePackage

SpecLookup == InitLookup /\ [][NextLookup]_vars

\* the positions of the versioned entries of items compatible with want
CompatibleVersioned(items, want) ==
    {i \in 1..Len(items) :
        items[i].version # Undefined /\ Compatible(want, items[i].version)}

-----------------------------------------------------------------------------
(* Assets through both marshalers *)

\* what an asset envelope can hold under path, text or uri: nothing, the
\* empty string, or another string
AssetFieldChoices == {Undefined, Str(""), Str("x")}

\* the asset envelopes an engine response can hold
AssetEnvelopes ==
    {Obj([k \in {specialSigKey} \cup {f \in {"path", "text", "uri"} : fs[f] # Undefined} |->
             IF k = specialSigKey THEN Str(specialAssetSig) ELSE fs[k]]) :
        fs \in [{"path", "text", "uri"} -> AssetFieldChoices]}

\* the assets a program hands to serializeProperty
Assets ==
    {[t |-> kind, v |-> Str(string)] :
        kind \in {"FileAsset", "StringAsset", "RemoteAsset"}, string \in {"", "x"}}

\* an engine response holding an asset envelope about to be deserialized, or
\* a program about to serialize an asset
InitAsset ==
    /\ isDryRun \in BOOLEAN
    /\ supportsSecrets = TRUE
    /\ supportsResourceReferences = TRUE
    /\ supportsOutputValues = TRUE
    /\ \/ pc = "serialized" /\ prop = Undefined /\ wire \in AssetEnvelopes
       \/ pc = "input" /\ prop \in Assets /\ wire = Undefined
    /\ opts = Undefined
    /\ keepUnknowns = FALSE
    /\ dependentResources = {}
    /\ result = Undefined
    /\ resourceModules = EmptyTable
    /\ resourcePackages = EmptyTable
    /\ lastCall = NoCall
    /\ NoAwait
    /\ NoTransfer

SpecAsset == InitAsset /\ [][NextMarshal]_vars

\* the fields among path, text, uri that value has
VariantFields(value) == {"path", "text", "uri"} \cap DOMAIN value.v

\* the asset made from field f holding the string value
AssetOf(f, value) ==
    [t |-> CASE f = "path" -> "FileAsset" [] f = "text" -> "StringAsset" [] f = "uri" -> "RemoteAsset",
     v |-> value]

\* C18: an asset envelope with exactly one of path, text, uri present, with
\* any string in it, the empty string included, deserializes to the asset of
\* that field carrying that string; the error is raised only when none of
\* the three is present; and a StringAsset with empty text survives
\* serialize followed by deserialize.
C18_AssetDecoding ==
    pc = "deserialized" /\ Get(wire, specialSigKey) = Str(specialAssetSig)
        => /\ \A f \in VariantFields(wire) :
                (VariantFields(wire) = {f} /\ wire.v[f].t = "string")
                    => result = AssetOf(f, wire.v[f])
           /\ IsThrow(result) => VariantFields(wire) = {}
           /\ prop = [t |-> "StringAsset", v |-> Str("")] => result = prop

-----------------------------------------------------------------------------
(* serializeProperty as an asynchronous call *)

\* a promise that may be pending when the call starts; cells[cell] is its
\* settlement
Deferred(cell) == [t |-> "Deferred", cell |-> cell]

\* a known, non-secret lazy value whose value promise is cells[cell]
AsyncOutput(cell, resources) ==
    [t |-> "AsyncOutput", cell |-> cell, resources |-> resources]

\* the own properties of a component: its urn, itself, and the rules its
\* children fill in once they are registered
ComponentProperties(name) ==
    [urn |-> AsyncOutput(name \o ".urn", {name}),
     self |-> ComponentResource(name),
     rules |-> Deferred(name \o ".rules")]

\* what a promise of the model is fulfilled with
CellValue(cell) == IF cell = "C1.urn" THEN Str("urn:C1") ELSE Num(7)

\* how far a call got: done with a wire value, blocked on a pending promise,
\* or failed with an error; with the resources it added to the caller's set,
\* the promises it awaited and the resource properties it read
Outcome(status, value, deps, aw, rd, on) ==
    [status |-> status, v |-> value, deps |-> deps, awaited |-> aw, reads |-> rd, on |-> on]

\* the outcome of two steps started together, as with Promise.all
Concurrent(first, rest) ==
    Outcome(IF first.status # "done" THEN first.status ELSE rest.status,
            IF first.status # "done" THEN first.v
            ELSE IF rest.status = "done" THEN <<first.v>> \o rest.v ELSE rest.v,
            first.deps \cup rest.deps, first.awaited \cup rest.awaited,
            first.reads \cup rest.reads,
            IF first.status # "done" THEN first.on ELSE rest.on)

\* the outcome of `await first` followed by the rest of the loop: the rest
\* runs when the first step is done
Sequenced(first, rest) ==
    IF first.status # "done" THEN first
    ELSE Outcome(rest.status,
                 IF rest.status = "done" THEN <<first.v>> \o rest.v ELSE rest.v,
                 first.deps \cup rest.deps, first.awaited \cup rest.awaited,
                 first.reads \cup rest.reads, rest.on)

\* the Output branch around `await prop.promise()`: with keepOutputValues
\* false the value is collapsed, and the resources of the lazy value and of
\* its value are added to the caller's set
outputOutcome(p, inner, tracked) ==
    [inner EXCEPT !.deps = (IF tracked THEN p.resources ELSE {})
                           \cup (IF tracked /\ inner.status = "done" THEN @ ELSE {}),
                  !.v = IF inner.status = "done"
                        THEN collapsedOutput(TRUE, FALSE, @) ELSE @]

\* the end of the ComponentResource branch: a resource reference with the
\* serialized urn and no id, or the serialized urn alone
componentOutcome(p, urn) ==
    IF urn.status = "done" /\ supportsResourceReferences
    THEN [urn EXCEPT !.reads = @ \cup {<<p.name, "urn">>},
                     !.v = Obj((specialSigKey :> Str(specialResourceSig)) @@ ("urn" :> @))]
    ELSE [urn EXCEPT !.reads = @ \cup {<<p.name, "urn">>}]

\* the end of a ComponentResource branch that has serialized the rules too
componentOutcome_WithRules(p, both) ==
    IF both.status = "done"
    THEN [both EXCEPT !.reads = @ \cup {<<p.name, "urn">>, <<p.name, "rules">>},
                      !.v = IF supportsResourceReferences
                            THEN Obj((specialSigKey :> Str(specialResourceSig))
                                     @@ ("urn" :> @[1]))
                            ELSE @[1]]
    ELSE [both EXCEPT !.reads = @ \cup {<<p.name, "urn">>, <<p.name, "rules">>}]

\* the end of the array branch: an undefined element becomes null
arrayOutcome(r) ==
    IF r.status = "done"
    THEN [r EXCEPT !.v = Arr([i \in 1..Len(@) |-> IF @[i] = Undefined THEN Null ELSE @[i]])]
    ELSE r

\* the end of serializeAllKeys: a key whose value is undefined is left out
objectOutcome(keys, r) ==
    IF r.status = "done"
    THEN [r EXCEPT !.v = Obj([k \in {keys[i] : i \in {j \in 1..Len(keys) : @[j] # Undefined}} |->
                                 @[CHOOSE i \in 1..Len(keys) : keys[i] = k]])]
    ELSE r

RECURSIVE asyncSerialize(_, _, _), asyncElements(_, _, _)

\* the elements started together, as with Promise.all
asyncElements_Concurrent(list, tracked, o) ==
    IF list = <<>> THEN Outcome("done", <<>>, {}, {}, {}, "none")
    ELSE CHOOSE out \in {Concurrent(first, rest) :
                            first \in {asyncSerialize(Head(list), tracked, o)},
                            rest \in {asyncElements(Tail(list), tracked, o)}} : TRUE

\* the loop `for (...) { ... await serializeProperty(element) ... }`: an
\* element is started when the one before it is done
asyncElements(list, tracked, o) ==
    IF list = <<>> THEN Outcome("done", <<>>, {}, {}, {}, "none")
    ELSE CHOOSE out \in {Sequenced(first, rest) :
                            first \in {asyncSerialize(Head(list), tracked, o)},
                            rest \in {asyncElements(Tail(list), tracked, o)}} : TRUE

\* resource references carry their own dependency: with them supported and
\* excludeResourceReferencesFromDependencies set, the urn adds nothing
tracksComponent(tracked, o) ==
    IF supportsResourceReferences /\ OptExcludeResourceReferences(o) THEN FALSE ELSE tracked

\* the component branch going through the rules of the component as well
asyncComponent_WithRules(p, tracked, o) ==
    CHOOSE out \in {componentOutcome_WithRules(p, both) :
                       both \in {asyncElements(<<ComponentProperties(p.name).urn,
                                                 ComponentProperties(p.name).rules>>,
                                               tracksComponent(tracked, o),
                                               KeepOutputValuesFalse)}} : TRUE

\* the ComponentResource branch: prop.urn is the one property it reads
asyncComponent(p, tracked, o) ==
    CHOOSE out \in {componentOutcome(p, urn) :
                       urn \in {asyncSerialize(ComponentProperties(p.name).urn,
                                               tracksComponent(tracked, o),
                                               KeepOutputValuesFalse)}} : TRUE

\* serializeProperty(ctx, p, dependentResources, o) run until it is done,
\* fails, or awaits a pending promise
asyncSerialize(p, tracked, o) ==
    CASE isPrimitive(p) -> Outcome("done", p, {}, {}, {}, "none")
      [] p.t = "Deferred" ->
            IF cells[p.cell].state = "pending"
            THEN Outcome("blocked", Undefined, {}, {p.cell}, {}, p.cell)
            ELSE IF cells[p.cell].state = "rejected"
            THEN Outcome("failed", cells[p.cell].v, {}, {p.cell}, {}, "none")
            ELSE [asyncSerialize(cells[p.cell].v, tracked, o)
                    EXCEPT !.awaited = @ \cup {p.cell}]
      [] p.t = "AsyncOutput" ->
            CHOOSE out \in {outputOutcome(p, inner, tracked) :
                               inner \in {asyncSerialize(Deferred(p.cell), TRUE,
                                                         KeepOutputValuesFalse)}} : TRUE
      [] p.t = "ComponentResource" -> asyncComponent(p, tracked, o)
      [] p.t = "array" ->
            CHOOSE out \in {arrayOutcome(r) : r \in {asyncElements(p.v, tracked, o)}} : TRUE
      [] OTHER ->
            CHOOSE out \in {objectOutcome(keys, r) :
                               keys \in {ObjectKeys(p)},
                               r \in {asyncElements([i \in 1..Len(ObjectKeys(p)) |->
                                                        p.v[ObjectKeys(p)[i]]],
                                                    tracked, o)}} : TRUE

\* the greatest number of elements of the sequence or object handed to the
\* asynchronous call
MaxElements == 2

\* what the element at position i can be: a number, a promise, a lazy value
\* that depends on the resource of that position, or the component
ElementsAt(i) ==
    {Num(1), Deferred("p" \o ToString(i)),
     AsyncOutput("p" \o ToString(i), {"R" \o ToString(i)}), ComponentResource("C1")}

\* the element lists of at most max elements that hold the component at
\* most once
ElementLists(max) ==
    UNION {{l \in [1..n -> UNION {ElementsAt(i) : i \in 1..n}] :
               /\ \A i \in 1..n : l[i] \in ElementsAt(i)
               /\ Cardinality({i \in 1..n : l[i].t = "ComponentResource"}) <= 1} :
           n \in 1..max}

\* the values handed to the asynchronous call: the component, a sequence, or
\* an object whose keys are in declaration order
AsyncInputs ==
    {ComponentResource("C1")}
    \cup {Arr(l) : l \in ElementLists(MaxElements)}
    \cup {Obj([k \in {KeyOrder[i] : i \in 1..Len(l)} |->
                 l[CHOOSE i \in 1..Len(l) : KeyOrder[i] = k]]) : l \in ElementLists(MaxElements)}

\* the promises of a value: those of its elements and of the component
RECURSIVE CellsOf(_)
CellsOf(value) ==
    CASE value.t \in {"Deferred", "AsyncOutput"} -> {value.cell}
      [] value.t = "ComponentResource" -> {value.name \o ".urn", value.name \o ".rules"}
      [] value.t = "array" -> UNION {CellsOf(value.v[i]) : i \in 1..Len(value.v)}
      [] value.t = "object" -> UNION {CellsOf(value.v[k]) : k \in DOMAIN value.v}
      [] OTHER -> {}

\* the call resumes: it runs from the promise it was suspended on, now
\* settled, to the next pending promise it awaits, or to its end
Advance ==
    /\ pc \in {"input", "awaiting"}
    /\ pc = "awaiting" => cells[blockedOn].state # "pending"
    /\ \E r \in {asyncSerialize(prop, TRUE, opts)} :
           /\ pc' = CASE r.status = "done" -> "serialized"
                      [] r.status = "blocked" -> "awaiting"
                      [] r.status = "failed" -> "failed"
           /\ wire' = IF r.status = "done" THEN r.v ELSE wire
           /\ thrown' = IF r.status = "failed" THEN r.v ELSE thrown
           /\ dependentResources' = dependentResources \cup r.deps
           /\ awaited' = r.awaited
           /\ reads' = r.reads
           /\ blockedOn' = r.on
    /\ UNCHANGED <<settingsVars, prop, opts, keepUnknowns, result, registryVars, transferVars,
                   cells>>

\* a pending promise of the input is fulfilled
FulfilCell ==
    /\ \E c \in DOMAIN cells :
        /\ cells[c] = Pending
        /\ cells' = [cells EXCEPT ![c] = Fulfilled(CellValue(c))]
    /\ UNCHANGED <<settingsVars, marshalVars, registryVars, transferVars, awaited, reads,
                   blockedOn, thrown>>

\* a pending promise of the input is rejected
RejectCell ==
    /\ \E c \in DOMAIN cells :
        /\ cells[c] = Pending
        /\ cells' = [cells EXCEPT ![c] = Rejected(OtherError)]
    /\ UNCHANGED <<settingsVars, marshalVars, registryVars, transferVars, awaited, reads,
                   blockedOn, thrown>>

NextAsync == Advance \/ FulfilCell \/ RejectCell

\* a call about to start on a value whose promises are all pending
InitAsync ==
    /\ isDryRun = FALSE
    /\ supportsSecrets = TRUE
    /\ supportsResourceReferences \in BOOLEAN
    /\ supportsOutputValues = TRUE
    /\ pc = "input"
    /\ prop \in AsyncInputs
    /\ opts \in {Undefined, Options(FALSE, TRUE)}
    /\ keepUnknowns = FALSE
    /\ wire = Undefined
    /\ dependentResources = {}
    /\ result = Undefined
    /\ resourceModules = EmptyTable
    /\ resourcePackages = EmptyTable
    /\ lastCall = NoCall
    /\ NoTransfer
    /\ cells = [c \in CellsOf(prop) |-> Pending]
    /\ awaited = {}
    /\ reads = {}
    /\ blockedOn = "none"
    /\ thrown = Undefined

SpecAsync == InitAsync /\ [][NextAsync]_vars

\* the event loop resumes a call whose awaited promise has settled
SpecAsyncFair == SpecAsync /\ WF_vars(Advance)

\* the elements of the sequence or object of the run, in declaration order
Elements ==
    CASE prop.t = "array" -> prop.v
      [] prop.t = "object" -> [i \in 1..Len(ObjectKeys(prop)) |-> prop.v[ObjectKeys(prop)[i]]]
      [] OTHER -> <<>>

\* the promises the serialization of an element awaits
ElementCells(e) ==
    CASE e.t \in {"Deferred", "AsyncOutput"} -> {e.cell}
      [] e.t = "ComponentResource" -> {e.name \o ".urn"}
      [] OTHER -> {}

\* the resources the serialization of an element adds to the dep set
ElementResources(e) ==
    CASE e.t = "AsyncOutput" -> e.resources
      [] e.t = "ComponentResource" -> {e.name}
      [] OTHER -> {}

\* something of the element has been awaited or added to the dep set
Started(e) ==
    \/ ElementCells(e) \cap awaited # {}
    \/ ElementResources(e) \cap dependentResources # {}

\* the serialization of the element has completed
Completed(e) ==
    \A c \in ElementCells(e) : c \in awaited /\ cells[c].state = "fulfilled"

\* C19: within one sequence or object, a later element is awaited or adds
\* to the dep set only after every earlier element has completed; an element
\* that stays pending keeps the call suspended with no later element
\* started, and an element that is rejected fails the call with its error,
\* no later element started.
C19_DeclarationOrder ==
    prop.t \in {"array", "object"}
        => /\ \A i, j \in 1..Len(Elements) :
                (i < j /\ Started(Elements[j])) => Completed(Elements[i])
           /\ pc = "awaiting"
                => \E i \in 1..Len(Elements) :
                    /\ blockedOn \in ElementCells(Elements[i])
                    /\ \A j \in (i + 1)..Len(Elements) : ~Started(Elements[j])
           /\ pc = "failed"
                => /\ thrown = OtherError
                   /\ \E i \in 1..Len(Elements) :
                        /\ \E c \in ElementCells(Elements[i]) :
                                cells[c] = Rejected(OtherError)
                        /\ \A j \in (i + 1)..Len(Elements) : ~Started(Elements[j])

\* the first element was rejected after the second had been fulfilled: the
\* call failed with the error, and the second element, a lazy value that
\* depends on R2, was neither awaited nor added to the dep set
C19_Witness ==
    /\ pc = "failed"
    /\ prop = Arr(<<Deferred("p1"), AsyncOutput("p2", {"R2"})>>)
    /\ cells["p1"] = Rejected(OtherError)
    /\ cells["p2"] = Fulfilled(Num(7))
    /\ thrown = OtherError
    /\ awaited = {"p1"}
    /\ dependentResources = {}

\* C12: serializing a component whose properties lead back to it reads no
\* property of the component but urn and awaits no promise but that of the
\* urn; it returns the resource reference {signature, urn} without an id
\* when the peer supports resource references and the bare URN otherwise;
\* and it terminates once the urn is resolved.
C12_ComponentCycleSafety ==
    /\ [](prop = ComponentResource("C1")
            => /\ reads \subseteq {<<"C1", "urn">>}
               /\ awaited \subseteq {"C1.urn"}
               /\ pc = "serialized"
                    => wire = IF supportsResourceReferences
                              THEN Obj((specialSigKey :> Str(specialResourceSig))
                                       @@ ("urn" :> Str("urn:C1")))
                              ELSE Str("urn:C1"))
    /\ (prop = ComponentResource("C1") /\ cells["C1.urn"].state = "fulfilled")
            ~> (pc = "serialized")

\* the component was serialized to a resource reference while the promise of
\* its rules was still pending
C12_Witness ==
    /\ prop = ComponentResource("C1")
    /\ pc = "serialized"
    /\ supportsResourceReferences
    /\ cells["C1.rules"] = Pending
    /\ reads = {<<"C1", "urn">>}
    /\ awaited = {"C1.urn"}
    /\ DOMAIN wire.v = {specialSigKey, "urn"}

====
